---- MODULE Spec2Model ----
(***************************************************************************)
(* Model of the automation scripting engine (src/automation/engine.py):    *)
(* AutomationEngine.start / cancel / _worker / _log / _finish, executed by *)
(* caller threads and worker threads that interleave statement by          *)
(* statement, over the AutomationScript of src/automation/script_model.py. *)
(***************************************************************************)
EXTENDS Integers, Sequences, FiniteSets, TLC

\* ------------------------------------------------------------------ bounds
MaxActions == 2     \* longest action list
MaxWorkers == 2     \* threading.Thread objects an engine creates in a run of the model
MaxRepeat == 2      \* largest repeat_count
NumCallers == 2     \* threads that call start() / cancel() on the engine

Callers == 1..NumCallers
Workers == 1..MaxWorkers
NoThread == 0
NoRepeat == 0

\* ------------------------------------------------------------- the script
\* Action classes a script holds (the class name is what the progress line
\* prints); WaitAction.run cannot raise, LaunchProcessAction.run can.
ActionKinds == {"WaitAction", "LaunchProcessAction"}

CanRaise(kind) == kind = "LaunchProcessAction"

\* an action whose run blocks for ever
RunNeverEnds(kind) == {}

RunOutcomes(kind) == IF CanRaise(kind) THEN {"return", "raise"} ELSE {"return"}

\* str(e) of the ActionError raised by the run of the action at index i
ErrorText(kind, i) == <<kind, i>>

\* str(e) of an exception raised by a caller-supplied callback
CallbackErrorText == <<"callback", 0>>

NoError == <<"", 0>>

AutomationScript ==
    [actions : UNION {[1..n -> ActionKinds] : n \in 0..MaxActions},
     repeat_count : {NoRepeat} \cup (1..MaxRepeat),
     repeat_until_stopped : BOOLEAN]

\* ---------------------------------------------------------------- state
VARIABLES
    script,      \* self._script
    thread,      \* self._thread: NoThread (None) or a worker
    stop,        \* self._stop (threading.Event)
    onLog,       \* self._on_log is set
    onDone,      \* self._on_done is set
    cpc,         \* per caller: the statement of start()/cancel() it is at
    joinTarget,  \* per caller: the thread its join() waits for
    wpc,         \* per worker: life cycle and position in _worker ("dead": run()
                 \* has ended; "forgotten": dead, and its record below dropped)
    idx,         \* per worker: 1-based index of enumerate(self._script.actions)
    pending,     \* per worker: the (ok, msg) _finish is called with
    trace,       \* per worker: what the worker did, in order
    sinceStop,   \* per worker: action runs begun / ended while the flag is set
    everCancel,  \* cancel() was called at least once
    noopStart,   \* some start() call returned at line 30 (a worker was alive)
    joinTimedOut,\* some join(timeout=2.0) returned while its thread was alive
    logRaised,   \* some call of the on_log callback raised
    cancelled,   \* the workers that were alive when cancel() last set the flag
                 \* and still are; emptied when start() clears the flag
    input,       \* the argument of the parsing or run function under study
    output,      \* its result, NotRun before the call
    \* the AutoClickerEngine of clicker_engine.py, whose configuration is `input`
    state,           \* self._state
    worker_thread,   \* self._worker_thread: NoThread (None) or a click worker
    stop_flag,       \* self._stop_flag
    clicks_executed, \* self._clicks_executed
    kpc,             \* the statement of start() / stop() the caller thread is at
    cwpc,            \* per click worker: its position in _click_worker
    position_index,  \* per click worker: current_position_index
    loaded,          \* per click worker: the count read by `+= 1`, not yet stored
    clicked,         \* per click worker: the positions it clicked, in order
    stopCalled,      \* stop() got past line 78 at least once
    clickRaised      \* some pyautogui call raised

vars == <<script, thread, stop, onLog, onDone, cpc, joinTarget,
          wpc, idx, pending, trace, sinceStop, everCancel, noopStart, joinTimedOut,
          logRaised, cancelled, input, output,
          state, worker_thread, stop_flag, clicks_executed, kpc, cwpc,
          position_index, loaded, clicked, stopCalled, clickRaised>>

engineVars == <<script, thread, stop, onLog, onDone>>
callerVars == <<cpc, joinTarget>>
histVars == <<everCancel, noopStart, joinTimedOut, logRaised, cancelled>>
clickerVars == <<state, worker_thread, stop_flag, clicks_executed, kpc, cwpc,
                 position_index, loaded, clicked, stopCalled, clickRaised>>
\* what the steps of the AutomationEngine leave alone
pureVars == <<input, output, clickerVars>>

NoInput == [given |-> FALSE]
NotRun == [done |-> FALSE]
workerVars == <<wpc, idx, pending, trace, sinceStop>>

\* Thread.is_alive(): true from Thread.start() until run() has ended
Alive(w) == wpc[w] \notin {"unborn", "created", "dead", "forgotten"}

\* start() and cancel() without the is-alive test
IsRunningNever == FALSE

\* self._thread and self._thread.is_alive()   (engine.py lines 29, 37, 41)
IsRunning == thread # NoThread /\ Alive(thread)

AliveWorkers == {w \in Workers : Alive(w)}

Unborn == {w \in Workers : wpc[w] = "unborn"}

NoPending == [ok |-> FALSE, head |-> "", err |-> NoError, inTry |-> FALSE]

\* the argument lists of the three _finish calls of _worker
Completed == [ok |-> TRUE, head |-> "Completed", err |-> NoError, inTry |-> TRUE]
Aborted == [ok |-> FALSE, head |-> "Aborted", err |-> NoError, inTry |-> TRUE]
Errored(e) == [ok |-> FALSE, head |-> "Error: ", err |-> e, inTry |-> FALSE]

\* the engine after __init__ (lines 15-20); the callers in `active` use it
InitWithInput(scripts, active, inputs) ==
    /\ script \in scripts
    /\ thread = NoThread
    /\ stop = FALSE
    /\ onLog = FALSE
    /\ onDone = FALSE
    /\ cpc = [c \in Callers |-> IF c \in active THEN "idle" ELSE "off"]
    /\ joinTarget = [c \in Callers |-> NoThread]
    /\ wpc = [w \in Workers |-> "unborn"]
    /\ idx = [w \in Workers |-> 0]
    /\ pending = [w \in Workers |-> NoPending]
    /\ trace = [w \in Workers |-> <<>>]
    /\ sinceStop = [w \in Workers |-> [begun |-> 0, ended |-> 0]]
    /\ everCancel = FALSE
    /\ noopStart = FALSE
    /\ joinTimedOut = FALSE
    /\ logRaised = FALSE
    /\ cancelled = {}
    /\ input \in inputs
    /\ output = NotRun
    \* AutoClickerEngine.__init__ (clicker_engine.py 32-37)
    /\ state = "STOPPED"
    /\ worker_thread = NoThread
    /\ stop_flag = FALSE
    /\ clicks_executed = 0
    /\ kpc = "idle"
    /\ cwpc = [w \in Workers |-> "unborn"]
    /\ position_index = [w \in Workers |-> 0]
    /\ loaded = [w \in Workers |-> 0]
    /\ clicked = [w \in Workers |-> <<>>]
    /\ stopCalled = FALSE
    /\ clickRaised = FALSE

InitWith(scripts, active) == InitWithInput(scripts, active, {NoInput})

\* scripts that give no loop configuration
PlainScripts ==
    {s \in AutomationScript : s.repeat_count = NoRepeat /\ ~s.repeat_until_stopped}

\* one caller thread drives the engine, the script has no loop configuration
Init == InitWith(PlainScripts, {1})

\* one caller thread, any loop configuration
InitLoop == InitWith(AutomationScript, {1})

\* ------------------------------------------------- on_log(cb), on_done(cb)
\* (registered before the first start(): run_script.py lines 28-31)
RegisterOnLog(c) ==
    /\ cpc[c] = "idle"
    /\ thread = NoThread
    /\ ~onLog
    /\ onLog' = TRUE
    /\ UNCHANGED <<pureVars, script, thread, stop, onDone, callerVars, workerVars, histVars>>

RegisterOnDone(c) ==
    /\ cpc[c] = "idle"
    /\ thread = NoThread
    /\ ~onDone
    /\ onDone' = TRUE
    /\ UNCHANGED <<pureVars, script, thread, stop, onLog, callerVars, workerVars, histVars>>

\* ---------------------------------------------------------------- start()
\* callers that passed the is-alive check and have not yet created their thread
Starting == {c \in Callers : cpc[c] \in {"start_clear", "start_create"}}

\* line 29-30: if self._thread and self._thread.is_alive(): return
StartCheck(c) ==
    /\ cpc[c] = "idle"
    /\ IF IsRunning
         THEN /\ noopStart' = TRUE
              /\ UNCHANGED cpc
         ELSE /\ cpc' = [cpc EXCEPT ![c] = "start_clear"]
              /\ UNCHANGED noopStart
    /\ UNCHANGED <<pureVars, engineVars, joinTarget, workerVars, everCancel, joinTimedOut,
                   logRaised, cancelled>>

\* a start() that leaves the flag as it finds it
ClearKeeps(flag) == flag

\* threading.Event.clear()
Clear(flag) == FALSE

\* line 31: self._stop.clear()
StartClear(c) ==
    /\ cpc[c] = "start_clear"
    /\ stop' = Clear(stop)
    /\ sinceStop' = [w \in Workers |-> [begun |-> 0, ended |-> 0]]
    /\ cpc' = [cpc EXCEPT ![c] = "start_create"]
    /\ cancelled' = {}
    /\ UNCHANGED <<pureVars, script, thread, onLog, onDone, joinTarget,
                   wpc, idx, pending, trace, everCancel, noopStart, joinTimedOut,
                   logRaised>>

\* line 32: self._thread = threading.Thread(target=self._worker, daemon=True)
\* (the record of the workers that ended before is dropped here; the model
\* holds MaxWorkers threads, a caller that needs one more waits here)
StartCreate(c) ==
    /\ cpc[c] = "start_create"
    /\ Unborn # {}
    /\ LET w == CHOOSE u \in Unborn : \A v \in Unborn : u <= v
           Dead == {d \in Workers : wpc[d] = "dead"}
       IN /\ wpc' = [v \in Workers |-> IF v = w THEN "created"
                                       ELSE IF v \in Dead THEN "forgotten" ELSE wpc[v]]
          /\ thread' = w
          /\ idx' = [v \in Workers |-> IF v \in Dead THEN 0 ELSE idx[v]]
          /\ pending' = [v \in Workers |-> IF v \in Dead THEN NoPending ELSE pending[v]]
          /\ trace' = [v \in Workers |-> IF v \in Dead THEN <<>> ELSE trace[v]]
          /\ sinceStop' = [v \in Workers |->
                             IF v \in Dead THEN [begun |-> 0, ended |-> 0] ELSE sinceStop[v]]
    /\ cpc' = [cpc EXCEPT ![c] = "start_run"]
    /\ UNCHANGED <<pureVars, script, stop, onLog, onDone, joinTarget, histVars>>

\* line 33: self._thread.start()  (Thread.start raises RuntimeError on a
\* thread that was started before)
StartRun(c) ==
    /\ cpc[c] = "start_run"
    /\ IF wpc[thread] = "created"
         THEN /\ wpc' = [wpc EXCEPT ![thread] = "check"]
              /\ idx' = [idx EXCEPT ![thread] = 1]
         ELSE UNCHANGED <<wpc, idx>>
    /\ cpc' = [cpc EXCEPT ![c] = "idle"]
    /\ UNCHANGED <<pureVars, engineVars, joinTarget, pending, trace, sinceStop, histVars>>

\* --------------------------------------------------------------- cancel()
\* line 36: self._stop.set()
CancelSet(c) ==
    /\ cpc[c] = "idle"
    /\ stop' = TRUE
    /\ everCancel' = TRUE
    /\ cpc' = [cpc EXCEPT ![c] = "cancel_check"]
    /\ UNCHANGED <<pureVars, script, thread, onLog, onDone, joinTarget, workerVars,
                   noopStart, joinTimedOut, logRaised>>
    /\ cancelled' = {w \in Workers : Alive(w)}

\* line 37: if self._thread and self._thread.is_alive():
CancelCheck(c) ==
    /\ cpc[c] = "cancel_check"
    /\ IF IsRunning
         THEN cpc' = [cpc EXCEPT ![c] = "cancel_join"]
         ELSE cpc' = [cpc EXCEPT ![c] = "idle"]
    /\ UNCHANGED <<pureVars, engineVars, joinTarget, workerVars, histVars>>

\* line 38, the call: self._thread.join(timeout=2.0)  (Thread.join raises
\* RuntimeError on a thread that was not started)
CancelJoin(c) ==
    /\ cpc[c] = "cancel_join"
    /\ IF wpc[thread] = "created"
         THEN /\ cpc' = [cpc EXCEPT ![c] = "idle"]
              /\ UNCHANGED joinTarget
         ELSE /\ cpc' = [cpc EXCEPT ![c] = "cancel_wait"]
              /\ joinTarget' = [joinTarget EXCEPT ![c] = thread]
    /\ UNCHANGED <<pureVars, engineVars, workerVars, histVars>>

\* join() with no timeout
JoinReturnsWhenEnded(t) == ~Alive(t)

\* join(timeout=2.0) returns when the thread has ended or the bound has passed
JoinReturns(t) == ~Alive(t) \/ TRUE

\* line 38, the return of join
CancelJoinReturn(c) ==
    /\ cpc[c] = "cancel_wait"
    /\ JoinReturns(joinTarget[c])
    /\ cpc' = [cpc EXCEPT ![c] = "idle"]
    /\ joinTimedOut' = (joinTimedOut \/ Alive(joinTarget[c]))
    /\ joinTarget' = [joinTarget EXCEPT ![c] = NoThread]
    /\ UNCHANGED <<pureVars, engineVars, workerVars, everCancel, noopStart, logRaised,
                   cancelled>>

\* --------------------------------------------------------------- _worker
Append1(w, e) == [trace EXCEPT ![w] = Append(@, e)]

\* a worker that never looks at the flag
StopIsSetNever == FALSE

\* line 54: self._stop.is_set()
StopIsSet == stop

\* _log with no try/except around the callback
LogPropagatesAlways(cbRaises) == cbRaises

\* lines 45-48 of _log: an exception of the on_log callback is caught and dropped
LogPropagates(cbRaises) == FALSE

\* _finish with no try/except around the callback
FinishPropagatesAlways(cbRaises) == cbRaises

\* lines 65-68 of _finish: an exception of the on_done callback is caught and dropped
FinishPropagates(cbRaises) == FALSE

\* line 53 (next item of enumerate, or the loop's end and line 59) and
\* lines 54-56 (the cancel check)
WorkerCheck(w) ==
    /\ wpc[w] = "check"
    /\ IF idx[w] > Len(script.actions)
         THEN /\ pending' = [pending EXCEPT ![w] = Completed]
              /\ wpc' = [wpc EXCEPT ![w] = "finish"]
         ELSE IF StopIsSet
                THEN /\ pending' = [pending EXCEPT ![w] = Aborted]
                     /\ wpc' = [wpc EXCEPT ![w] = "finish"]
                ELSE /\ wpc' = [wpc EXCEPT ![w] = "log"]
                     /\ UNCHANGED pending
    /\ UNCHANGED <<pureVars, engineVars, callerVars, idx, trace, sinceStop, histVars>>

\* a progress line that shows enumerate's own 0-based index
ProgressLineZeroBased(i) == <<"log", i - 1, Len(script.actions), script.actions[i]>>

\* line 57, the message: f"[{idx+1}/{len(actions)}] {action.__class__.__name__}"
\* (the model's index i is the code's idx + 1)
ProgressLine(i) == <<"log", i, Len(script.actions), script.actions[i]>>

\* line 57: self._log(...)
WorkerLog(w) ==
    /\ wpc[w] = "log"
    /\ trace' = IF onLog THEN Append1(w, ProgressLine(idx[w])) ELSE trace
    /\ \E cbRaises \in BOOLEAN :
         /\ IF onLog /\ cbRaises /\ LogPropagates(cbRaises)
              THEN /\ pending' = [pending EXCEPT ![w] = Errored(CallbackErrorText)]
                   /\ wpc' = [wpc EXCEPT ![w] = "finish"]
              ELSE /\ wpc' = [wpc EXCEPT ![w] = "call"]
                   /\ UNCHANGED pending
         /\ logRaised' = (logRaised \/ (onLog /\ cbRaises))
    /\ UNCHANGED <<pureVars, engineVars, callerVars, idx, sinceStop,
                   everCancel, noopStart, joinTimedOut, cancelled>>

\* line 58, the call: action.run(ctx) begins
WorkerRunBegin(w) ==
    /\ wpc[w] = "call"
    /\ wpc' = [wpc EXCEPT ![w] = "run"]
    /\ trace' = Append1(w, <<"begin", idx[w]>>)
    /\ sinceStop' = [sinceStop EXCEPT ![w].begun = IF stop THEN @ + 1 ELSE @]
    /\ UNCHANGED <<pureVars, engineVars, callerVars, idx, pending, histVars>>

\* a loop that skips every other action
NextIndexSkip(i) == i + 2

\* line 53: enumerate hands out the actions one index after the other
NextIndex(i) == i + 1

\* a try block inside the loop: the failure is reported and the loop goes on
AfterRaiseContinue(i) == [pc |-> "check", idx |-> i + 1]

\* lines 52, 60-61: the try block encloses the whole for loop, so an exception
\* of action i leaves the loop for the handler's _finish call
AfterRaise(i) == [pc |-> "finish", idx |-> i]

\* line 58, the end: action.run(ctx) returns, or raises into line 60-61
WorkerRunEnd(w) ==
    /\ wpc[w] = "run"
    /\ \E outcome \in RunOutcomes(script.actions[idx[w]]) :
         IF outcome = "return"
           THEN /\ trace' = Append1(w, <<"end", idx[w]>>)
                /\ idx' = [idx EXCEPT ![w] = NextIndex(@)]
                /\ wpc' = [wpc EXCEPT ![w] = "check"]
                /\ UNCHANGED pending
           ELSE /\ trace' = Append1(w, <<"raise", idx[w]>>)
                /\ pending' = [pending EXCEPT ![w] =
                                 Errored(ErrorText(script.actions[idx[w]], idx[w]))]
                /\ wpc' = [wpc EXCEPT ![w] = AfterRaise(idx[w]).pc]
                /\ idx' = [idx EXCEPT ![w] = AfterRaise(idx[w]).idx]
    /\ sinceStop' = [sinceStop EXCEPT ![w].ended = IF stop THEN @ + 1 ELSE @]
    /\ UNCHANGED <<pureVars, engineVars, callerVars, histVars>>

\* the (ok, msg) an on_done callback receives
Outcome(p) == [ok |-> p.ok, head |-> p.head, err |-> p.err]

\* _finish, lines 64-66: if self._on_done: self._on_done(ok, msg) is called;
\* with no callback _finish returns and the thread ends
WorkerFinish(w) ==
    /\ wpc[w] = "finish"
    /\ IF onDone
         THEN /\ trace' = Append1(w, <<"done", Outcome(pending[w]), TRUE>>)
              /\ wpc' = [wpc EXCEPT ![w] = "in_done"]
         ELSE /\ trace' = Append1(w, <<"done", Outcome(pending[w]), FALSE>>)
              /\ wpc' = [wpc EXCEPT ![w] = "dead"]
    /\ cancelled' = {v \in cancelled : wpc'[v] # "dead"}
    /\ UNCHANGED <<pureVars, engineVars, callerVars, idx, pending, sinceStop,
                   everCancel, noopStart, joinTimedOut, logRaised>>

\* the on_done callback returns or raises (lines 66-68); an exception that
\* left _finish inside the try block of _worker would reach line 60-61
WorkerDoneReturn(w) ==
    /\ wpc[w] = "in_done"
    /\ \E cbRaises \in BOOLEAN :
         /\ IF cbRaises /\ FinishPropagates(cbRaises) /\ pending[w].inTry
           THEN /\ pending' = [pending EXCEPT ![w] = Errored(CallbackErrorText)]
                /\ wpc' = [wpc EXCEPT ![w] = "finish"]
           ELSE /\ wpc' = [wpc EXCEPT ![w] = "dead"]
                /\ UNCHANGED pending
         /\ trace' = IF cbRaises THEN Append1(w, <<"done_raised">>) ELSE trace
    /\ cancelled' = {v \in cancelled : wpc'[v] # "dead"}
    /\ UNCHANGED <<pureVars, engineVars, callerVars, idx, sinceStop,
                   everCancel, noopStart, joinTimedOut, logRaised>>

\* ------------------------------------------------------- specifications
Next ==
    \/ \E c \in Callers :
         \/ RegisterOnLog(c)
         \/ RegisterOnDone(c)
         \/ StartCheck(c)
         \/ StartClear(c)
         \/ StartCreate(c)
         \/ StartRun(c)
         \/ CancelSet(c)
         \/ CancelCheck(c)
         \/ CancelJoin(c)
         \/ CancelJoinReturn(c)
    \/ \E w \in Workers :
         \/ WorkerCheck(w)
         \/ WorkerLog(w)
         \/ WorkerRunBegin(w)
         \/ WorkerRunEnd(w)
         \/ WorkerFinish(w)
         \/ WorkerDoneReturn(w)

Spec == Init /\ [][Next]_vars

SpecLoop == InitLoop /\ [][Next]_vars

\* every started worker thread keeps being scheduled, each action's run
\* ends and each callback returns or raises; nothing is assumed of the caller
FairWorkers ==
    /\ Init
    /\ [][Next]_vars
    /\ \A w \in Workers :
          /\ WF_vars(WorkerCheck(w))
          /\ WF_vars(WorkerLog(w))
          /\ WF_vars(WorkerRunBegin(w))
          /\ WF_vars(WorkerRunEnd(w))
          /\ WF_vars(WorkerFinish(w))
          /\ WF_vars(WorkerDoneReturn(w))

\* two caller threads use the same engine at once
RaceScripts == {s \in PlainScripts : Len(s.actions) <= 1}

InitRace == InitWith(RaceScripts, Callers)

SpecRace == InitRace /\ [][Next]_vars

\* the thread that executes cancel() keeps being scheduled, and join returns
\* once its thread has ended or its timeout has passed; nothing is assumed of
\* the worker, whose action may block for ever
FairSpec ==
    /\ Init
    /\ [][Next]_vars
    /\ \A c \in Callers :
          /\ WF_vars(CancelCheck(c))
          /\ WF_vars(CancelJoin(c))
          /\ WF_vars(CancelJoinReturn(c))

\* ------------------------------------------------ reading a worker's trace
IsPrefix(a, b) == Len(a) <= Len(b) /\ SubSeq(b, 1, Len(a)) = a

IsRunEvent(e) == e[1] \in {"begin", "end", "raise"}
IsDoneEvent(e) == e[1] = "done"
IsInvocation(e) == e[1] = "done" /\ e[3]

\* the action runs of worker w: begin, end and raise events in order
RunEvents(w) == SelectSeq(trace[w], IsRunEvent)

\* the _finish calls of worker w, and those that invoked the on_done callback
DoneEvents(w) == SelectSeq(trace[w], IsDoneEvent)
Invocations(w) == SelectSeq(trace[w], IsInvocation)

Count(w, tag) == Cardinality({k \in 1..Len(trace[w]) : trace[w][k][1] = tag})

NoRaise(w) == Count(w, "raise") = 0

NumActions == Len(script.actions)

\* begin 1, end 1, ..., begin n, end n
FullPass(n) ==
    [k \in 1..(2 * n) |-> IF k % 2 = 1 THEN <<"begin", (k + 1) \div 2>>
                                      ELSE <<"end", k \div 2>>]

DoneWith(p) == <<"done", Outcome(p), onDone>>

NoLoopConfig == script.repeat_count = NoRepeat /\ ~script.repeat_until_stopped

\* ------------------------------------------------------------------ C1
\* C1: with no loop configuration, no raising action and no cancel() call, a
\* worker runs a1..an in list order, each once, one run ending before the
\* next begins, and calls _finish(True, "Completed") only after the last run
\* has ended; a worker that has ended has made that call.
C1_Sequencing ==
    \A w \in Workers :
        (NoLoopConfig /\ ~everCancel /\ NoRaise(w)) =>
            /\ IsPrefix(RunEvents(w), FullPass(NumActions))
            /\ DoneEvents(w) # <<>> =>
                  /\ RunEvents(w) = FullPass(NumActions)
                  /\ DoneEvents(w) = <<DoneWith(Completed)>>
                  /\ \A k \in 1..Len(trace[w]) :
                        IsRunEvent(trace[w][k]) =>
                            \E j \in (k + 1)..Len(trace[w]) : IsDoneEvent(trace[w][j])
            /\ wpc[w] = "dead" => DoneEvents(w) # <<>>

C1_Witness ==
    \E w \in Workers :
        /\ NoLoopConfig /\ ~everCancel /\ NoRaise(w)
        /\ wpc[w] = "dead"
        /\ NumActions = 2
        /\ RunEvents(w) = FullPass(2)
        /\ Invocations(w) = <<DoneWith(Completed)>>

\* ------------------------------------------------------------------ C3
RaiseAt(w) == {i \in 1..NumActions : \E k \in 1..Len(trace[w]) : trace[w][k] = <<"raise", i>>}

\* C3: when the run of action i raises, the action runs of the worker are
\* exactly the completed runs of 1..i-1 followed by the one begun run of i
\* (nothing after i, no second try of i), and the only _finish call the worker
\* makes is (False, "Error: " + the error text of action i); a worker that has
\* ended has made it.
C3_FailurePropagation ==
    \A w \in Workers : \A i \in RaiseAt(w) :
        /\ RunEvents(w) = FullPass(i - 1) \o <<(<<"begin", i>>), (<<"raise", i>>)>>
        /\ DoneEvents(w) \in {<<>>, <<DoneWith(Errored(ErrorText(script.actions[i], i)))>>}
        /\ wpc[w] = "dead" => DoneEvents(w) # <<>>

C3_Witness ==
    \E w \in Workers :
        /\ RaiseAt(w) = {2}
        /\ wpc[w] = "dead"
        /\ Count(w, "end") = 1
        /\ Invocations(w) = <<DoneWith(Errored(ErrorText(script.actions[2], 2)))>>

\* ------------------------------------------------------------------ C4
FinishOutcomes ==
    {Outcome(Completed), Outcome(Aborted)}
        \cup {Outcome(Errored(ErrorText(script.actions[i], i))) : i \in 1..NumActions}

\* C4: a worker never invokes on_done twice; a worker that has ended with a
\* callback registered has invoked it exactly once; the outcome is one of
\* (True, "Completed"), (False, "Aborted"), (False, "Error: ..."); this
\* includes the runs in which the on_done callback itself raised.
C4_ExactlyOneDone ==
    \A w \in Workers :
        /\ Len(Invocations(w)) <= 1
        /\ (wpc[w] = "dead" /\ onDone) => Len(Invocations(w)) = 1
        /\ \A k \in 1..Len(Invocations(w)) : Invocations(w)[k][2] \in FinishOutcomes

C4_Witness ==
    \E w \in Workers :
        /\ wpc[w] = "dead"
        /\ onLog
        /\ Invocations(w) = <<DoneWith(Completed)>>
        /\ Count(w, "done_raised") = 1
        /\ NumActions = 2

\* ------------------------------------------------------------------ C2
\* C2 as stated: once action A has completed (idx > 1) and the flag is set
\* before the run of B has begun, the run of B does not begin, whether the
\* worker stands before or after its flag check for B.
C2_Original ==
    [][\A w \in Workers :
          (idx[w] > 1 /\ stop /\ wpc[w] \in {"check", "log", "call"}) => wpc'[w] # "run"]_vars

\* the worker has seen the flag set at its check for the action at idx[w]
SawStop(w) == pending[w] = Aborted

\* C2 amended: a worker that finds the flag set at its check for B leaves the
\* loop at that check (it goes to _finish(False, "Aborted")); from then on no
\* run of B or of a later action exists, and its only _finish call is
\* (False, "Aborted"), made once by the time the worker has ended.
C2_CancelAtCheck ==
    /\ [][\A w \in Workers :
            (wpc[w] = "check" /\ idx[w] <= NumActions /\ stop /\ wpc'[w] # "check")
                => (wpc'[w] = "finish" /\ pending'[w] = Aborted)]_vars
    /\ [](\A w \in Workers :
            SawStop(w) =>
                /\ RunEvents(w) = FullPass(idx[w] - 1)
                /\ DoneEvents(w) \in {<<>>, <<DoneWith(Aborted)>>}
                /\ wpc[w] = "dead" => DoneEvents(w) # <<>>)

C2_Witness ==
    \E w \in Workers :
        /\ SawStop(w)
        /\ idx[w] = 2
        /\ NumActions = 2
        /\ wpc[w] = "dead"
        /\ Invocations(w) = <<DoneWith(Aborted)>>

\* ------------------------------------------------------------------ C5
\* C5: with one caller thread, a start() call whose check runs while a worker
\* is alive returns at line 30 and changes neither the thread handle nor any
\* worker, so that at most one worker is ever alive and the calls before a
\* run's end share its single on_done invocation.
C5_SecondStartIsNoop ==
    /\ [][\A c \in Callers :
            (StartCheck(c) /\ AliveWorkers # {})
                => (cpc'[c] = "idle" /\ UNCHANGED <<thread, stop, wpc, idx, trace>>)]_vars
    /\ [](/\ Cardinality(AliveWorkers) <= 1
          /\ \A w \in Workers : Len(Invocations(w)) <= 1)

C5_Witness ==
    /\ noopStart
    /\ wpc[1] = "dead"
    /\ Len(Invocations(1)) = 1
    /\ wpc[2] = "unborn"

\* ------------------------------------------------------------------ C6
\* C6: in every reachable state at most one worker thread of the engine is
\* alive, also when two caller threads call start() at the same time.
C6_AtMostOneWorker == Cardinality(AliveWorkers) <= 1

\* ------------------------------------------------------------------ C7
\* C7: with repeat_count = N >= 1, repeat_until_stopped false, no raising
\* action and no cancel() call, a worker that calls _finish has run the whole
\* list N times (N * k begun and ended runs) and reports (True, "Completed").
C7_RepeatCount ==
    \A w \in Workers :
        (/\ script.repeat_count >= 1
         /\ ~script.repeat_until_stopped
         /\ ~everCancel
         /\ NoRaise(w)
         /\ DoneEvents(w) # <<>>) =>
            /\ Count(w, "begin") = script.repeat_count * NumActions
            /\ Count(w, "end") = script.repeat_count * NumActions
            /\ DoneEvents(w) = <<DoneWith(Completed)>>

\* ------------------------------------------------------------------ C8
\* C8: with repeat_until_stopped = true and no raising action, a worker never
\* calls _finish(True, "Completed"), and calls _finish only after cancel()
\* has set the flag, with (False, "Aborted").
C8_UntilStopped ==
    \A w \in Workers :
        (script.repeat_until_stopped /\ NoRaise(w)) =>
            \A k \in 1..Len(DoneEvents(w)) :
                /\ DoneEvents(w)[k] = DoneWith(Aborted)
                /\ everCancel

\* ------------------------------------------------------------------ C9
\* C9 as stated: an action run that ends while the flag is set was already in
\* progress when the flag was set (no run that ends under the flag began
\* under it).
C9_Original ==
    \A w \in Workers : sinceStop[w].ended > 0 => sinceStop[w].begun = 0

\* C9 amended: a worker leaves an action run only by that run's return or
\* raise, never by the flag (outside a run its begun runs are all ended or
\* raised); and while the flag stays set at most one action run of a worker
\* ends: the one in progress, or the one whose check had passed before the
\* flag was set.
C9_BoundaryOnly ==
    \A w \in Workers :
        /\ sinceStop[w].ended <= 1
        /\ sinceStop[w].begun <= 1
        /\ wpc[w] # "run" => Count(w, "begin") = Count(w, "end") + Count(w, "raise")
        /\ wpc[w] = "run" => Count(w, "begin") = Count(w, "end") + Count(w, "raise") + 1

C9_Witness ==
    \E w \in Workers :
        /\ sinceStop[w].ended = 1
        /\ sinceStop[w].begun = 0
        /\ SawStop(w)
        /\ idx[w] = 2
        /\ wpc[w] = "dead"

\* ----------------------------------------------------------------- C10
InCancel(c) == cpc[c] \in {"cancel_check", "cancel_join", "cancel_wait"}

\* C10: every cancel() call returns to its caller, whatever the worker does
\* (its action may never return).
C10_CancelReturns == \A c \in Callers : InCancel(c) ~> (cpc[c] = "idle")

\* a cancel() has returned on the join timeout; the worker is still inside
\* an action (is_running() is true) and has its on_done call before it
C10_Witness ==
    /\ joinTimedOut
    /\ cpc[1] = "idle"
    /\ IsRunning
    /\ wpc[thread] = "run"
    /\ onDone /\ onLog
    /\ Invocations(thread) = <<>>

\* ----------------------------------------------------------------- C11
\* C11: a start() call made while a worker is alive is a no-op: it returns at
\* line 30 and leaves the thread handle, the callbacks and the cancel flag as
\* they are.
C11_StartWhileAliveIsNoop ==
    [][\A c \in Callers :
          (StartCheck(c) /\ AliveWorkers # {})
              => (cpc'[c] = "idle" /\ UNCHANGED <<thread, stop, onLog, onDone>>)]_vars

\* ----------------------------------------------------------------- C12
\* C12: whether or not the on_log callback raises, the worker goes on from
\* the progress line to the run of the same action with nothing pending; the
\* runs and the _finish call of a worker are those the actions and the flag
\* decide (a full pass and "Completed", the runs before idx and "Aborted", or
\* the runs up to a raising action and its "Error: ..."), and no _finish call
\* carries the text of a callback's exception.
C12_CallbackFailureIgnored ==
    /\ [][\A w \in Workers :
            (wpc[w] = "log" /\ wpc'[w] # "log")
                => (wpc'[w] = "call" /\ idx'[w] = idx[w] /\ pending'[w] = pending[w])]_vars
    /\ [](\A w \in Workers : \A k \in 1..Len(DoneEvents(w)) :
            LET o == DoneEvents(w)[k][2]
            IN /\ k = 1
               /\ o \in FinishOutcomes
               /\ o = Outcome(Completed) => RunEvents(w) = FullPass(NumActions)
               /\ o = Outcome(Aborted) => RunEvents(w) = FullPass(idx[w] - 1)
               /\ o.head = "Error: " => RaiseAt(w) = {o.err[2]})

C12_Witness ==
    /\ logRaised
    /\ wpc[1] = "dead"
    /\ wpc[2] = "unborn"
    /\ NumActions = 2
    /\ RunEvents(1) = FullPass(2)
    /\ Count(1, "log") = 2
    /\ Invocations(1) = <<DoneWith(Completed)>>
    /\ Count(1, "done_raised") = 1

\* ------------------------------------------------ Python values (documents)
\* A value of a parsed JSON/YAML document.  t is its Python type ("absent"
\* stands for a key the mapping does not have), i the number of an int or a
\* bool (True is 1), s the characters of a str.
Val(t, i, s) == [t |-> t, i |-> i, s |-> s]
Absent == Val("absent", 0, <<>>)
None == Val("none", 0, <<>>)
PyTrue == Val("bool", 1, <<>>)
PyFalse == Val("bool", 0, <<>>)
Int_(n) == Val("int", n, <<>>)
Str_(chars) == Val("str", 0, chars)
EmptyList == Val("list", 0, <<>>)
\* a list of strings, and a float given in thousandths (Float_(1500) is 1.5)
List_(items) == Val("list", 0, items)
Float_(thousandths) == Val("float", thousandths, <<>>)

\* dict.get(key, default)
Get(v, default) == IF v.t = "absent" THEN default ELSE v

\* truth value of a Python object
Truthy(v) ==
    CASE v.t \in {"absent", "none"} -> FALSE
      [] v.t \in {"bool", "int"}    -> v.i # 0
      [] v.t \in {"str", "list"}    -> v.s # <<>>
      [] v.t = "float"              -> v.i # 0
      [] OTHER                      -> FALSE

\* an `or` that always takes its right side
OrSecond(a, b) == b

\* `a or b`
Or(a, b) == IF Truthy(a) THEN a ELSE b

UpperCase == <<"A","B","C","D","E","F","G","H","I","J","K","L","M",
               "N","O","P","Q","R","S","T","U","V","W","X","Y","Z">>
LowerCase == <<"a","b","c","d","e","f","g","h","i","j","k","l","m",
               "n","o","p","q","r","s","t","u","v","w","x","y","z">>
Digits == <<"0","1","2","3","4","5","6","7","8","9">>

IndexIn(seq, ch) == IF \E k \in 1..Len(seq) : seq[k] = ch
                      THEN CHOOSE k \in 1..Len(seq) : seq[k] = ch
                      ELSE 0

\* str.lower()
Lower(chars) ==
    [k \in 1..Len(chars) |->
        IF IndexIn(UpperCase, chars[k]) # 0
          THEN LowerCase[IndexIn(UpperCase, chars[k])]
          ELSE chars[k]]

\* str.strip()
RECURSIVE LStrip(_)
LStrip(chars) ==
    IF chars # <<>> /\ Head(chars) = " " THEN LStrip(Tail(chars)) ELSE chars

RECURSIVE RStrip(_)
RStrip(chars) ==
    IF chars # <<>> /\ chars[Len(chars)] = " "
      THEN RStrip(SubSeq(chars, 1, Len(chars) - 1))
      ELSE chars

Strip(chars) == RStrip(LStrip(chars))

\* the decimal digits of a natural number
RECURSIVE DigitsOf(_)
DigitsOf(n) ==
    IF n < 10 THEN <<Digits[n + 1]>>
              ELSE DigitsOf(n \div 10) \o <<Digits[(n % 10) + 1]>>

\* str(value)
PyStr(v) ==
    CASE v.t = "str"  -> v.s
      [] v.t = "none" -> <<"N","o","n","e">>
      [] v.t = "bool" -> IF v.i = 1 THEN <<"T","r","u","e">> ELSE <<"F","a","l","s","e">>
      [] v.t = "int"  -> IF v.i < 0 THEN <<"-">> \o DigitsOf(0 - v.i) ELSE DigitsOf(v.i)
      [] OTHER        -> <<"[","]">>

\* the number a string of decimal digits stands for
RECURSIVE DigitsValue(_)
DigitsValue(chars) ==
    IF chars = <<>> THEN 0
    ELSE 10 * DigitsValue(SubSeq(chars, 1, Len(chars) - 1))
           + (IndexIn(Digits, chars[Len(chars)]) - 1)

AllDigits(chars) ==
    chars # <<>> /\ \A k \in 1..Len(chars) : IndexIn(Digits, chars[k]) # 0

\* int(value): the number, or the exception int() raises; a float is cut
\* towards zero
Raised(exc, arg) == [ok |-> FALSE, n |-> 0, exc |-> exc, arg |-> arg]
Number(n) == [ok |-> TRUE, n |-> n, exc |-> "", arg |-> <<>>]
PyInt(v) ==
    CASE v.t \in {"int", "bool"} -> Number(v.i)
      [] v.t = "float" ->
           Number(IF v.i < 0 THEN 0 - ((0 - v.i) \div 1000) ELSE v.i \div 1000)
      [] v.t = "str" ->
           LET body == Strip(v.s)
               neg  == body # <<>> /\ Head(body) \in {"-", "+"}
               digs == IF neg THEN Tail(body) ELSE body
           IN IF AllDigits(digs)
                THEN Number(IF neg /\ Head(body) = "-"
                              THEN 0 - DigitsValue(digs) ELSE DigitsValue(digs))
                ELSE Raised("ValueError", v.s)
      [] OTHER -> Raised("TypeError", <<>>)

\* the digits after a decimal point as thousandths: "5" is 500, "25" is 250
FractionValue(chars) ==
    LET d(k) == IF k <= Len(chars) THEN IndexIn(Digits, chars[k]) - 1 ELSE 0
    IN 100 * d(1) + 10 * d(2) + d(3)

\* float(value) in thousandths, for numbers and for decimal strings such as
\* "-2", "40" or "1.5"; the exception float() raises otherwise
PyFloat(v) ==
    CASE v.t \in {"int", "bool"} -> Number(1000 * v.i)
      [] v.t = "float" -> Number(v.i)
      [] v.t = "str" ->
           LET body == Strip(v.s)
               neg  == body # <<>> /\ Head(body) \in {"-", "+"}
               num  == IF neg THEN Tail(body) ELSE body
               dot  == IndexIn(num, ".")
               whole == IF dot = 0 THEN num ELSE SubSeq(num, 1, dot - 1)
               frac  == IF dot = 0 THEN <<>> ELSE SubSeq(num, dot + 1, Len(num))
               value == 1000 * DigitsValue(whole) + FractionValue(frac)
           IN IF AllDigits(whole \o frac) /\ Len(frac) <= 3
                THEN Number(IF neg /\ Head(body) = "-" THEN 0 - value ELSE value)
                ELSE Raised("ValueError", v.s)
      [] OTHER -> Raised("TypeError", <<>>)

\* list(value): the items of a list, the characters of a str, or TypeError
PyList(v) ==
    CASE v.t = "list" -> [ok |-> TRUE, items |-> v.s, exc |-> ""]
      [] v.t = "str"  -> [ok |-> TRUE, items |-> [k \in 1..Len(v.s) |-> <<v.s[k]>>],
                          exc |-> ""]
      [] OTHER        -> [ok |-> FALSE, items |-> <<>>, exc |-> "TypeError"]

\* max(1, n)
Max1Identity(n) == n
Max1(n) == IF n < 1 THEN 1 ELSE n

\* ------------------------------------------------ BaseAction.from_dict
\* An entry of the `actions` list: a mapping with the keys the parser reads
\* (Absent for a key it does not have), or something that is not a mapping.
NotMapping ==
    [mapping |-> FALSE, type |-> Absent, milliseconds |-> Absent,
     x |-> Absent, y |-> Absent, button |-> Absent, clicks |-> Absent,
     title |-> Absent, command |-> Absent, args |-> Absent, cwd |-> Absent,
     wait |-> Absent, sequence |-> Absent, text |-> Absent, amount |-> Absent,
     horizontal |-> Absent]
Mapping(type, milliseconds, x, y, button, clicks, title) ==
    [NotMapping EXCEPT !.mapping = TRUE, !.type = type,
                       !.milliseconds = milliseconds, !.x = x, !.y = y,
                       !.button = button, !.clicks = clicks, !.title = title]
LaunchEntry(command, args, cwd, wait) ==
    [NotMapping EXCEPT !.mapping = TRUE, !.type = Str_(<<"l","a","u","n","c","h","_","p","r","o","c","e","s","s">>),
                       !.command = command, !.args = args, !.cwd = cwd,
                       !.wait = wait]
SendKeysEntry(sequence) ==
    [NotMapping EXCEPT !.mapping = TRUE, !.type = Str_(<<"s","e","n","d","_","k","e","y","s">>),
                       !.sequence = sequence]
TypeTextEntry(text) ==
    [NotMapping EXCEPT !.mapping = TRUE, !.type = Str_(<<"t","y","p","e","_","t","e","x","t">>),
                       !.text = text]
ScrollEntry(amount, horizontal) ==
    [NotMapping EXCEPT !.mapping = TRUE, !.type = Str_(<<"s","c","r","o","l","l">>),
                       !.amount = amount, !.horizontal = horizontal]

\* the action objects (dataclasses) and the two results of a parse
\* (a field an action does not have holds a filler; wait is in thousandths
\* of a second)
NoAction ==
    [kind |-> "", milliseconds |-> 0, x |-> None, y |-> None,
     button |-> <<>>, clicks |-> 0, title |-> <<>>, command |-> <<>>,
     args |-> <<>>, cwd |-> None, wait |-> 0, sequence |-> <<>>, text |-> <<>>,
     amount |-> 0, horizontal |-> FALSE]
WaitAction(ms) ==
    [NoAction EXCEPT !.kind = "WaitAction", !.milliseconds = ms]
WindowActivateAction(title) ==
    [NoAction EXCEPT !.kind = "WindowActivateAction", !.title = title]
MouseClickAction(x, y, button, clicks) ==
    [NoAction EXCEPT !.kind = "MouseClickAction", !.x = x, !.y = y,
                     !.button = button, !.clicks = clicks]
LaunchProcessAction(command, args, cwd, wait) ==
    [NoAction EXCEPT !.kind = "LaunchProcessAction", !.command = command,
                     !.args = args, !.cwd = cwd, !.wait = wait]
SendKeysAction(sequence) ==
    [NoAction EXCEPT !.kind = "SendKeysAction", !.sequence = sequence]
TypeTextAction(text) ==
    [NoAction EXCEPT !.kind = "TypeTextAction", !.text = text]
ScrollAction(amount, horizontal) ==
    [NoAction EXCEPT !.kind = "ScrollAction", !.amount = amount,
                     !.horizontal = horizontal]

Parsed(a) == [ok |-> TRUE, action |-> a, exc |-> "", msg |-> "", arg |-> <<>>]
ParseFails(exc, msg, arg) ==
    [ok |-> FALSE, action |-> NoAction, exc |-> exc, msg |-> msg, arg |-> arg]

\* line 43: str(data.get("type", "")).strip().lower()
ActionTypeRaw(data) == PyStr(Get(data.type, Str_(<<>>)))
ActionType(data) == Lower(Strip(PyStr(Get(data.type, Str_(<<>>)))))

T_wait == <<"w","a","i","t">>
T_window_activate == <<"w","i","n","d","o","w","_","a","c","t","i","v","a","t","e">>
T_mouse_click == <<"m","o","u","s","e","_","c","l","i","c","k">>
T_launch_process == <<"l","a","u","n","c","h","_","p","r","o","c","e","s","s">>
T_send_keys == <<"s","e","n","d","_","k","e","y","s">>
T_type_text == <<"t","y","p","e","_","t","e","x","t">>
T_scroll == <<"s","c","r","o","l","l">>
KnownTypes == {T_launch_process, T_wait, T_send_keys, T_type_text,
               T_window_activate, T_mouse_click, T_scroll}
S_left == <<"l","e","f","t">>
S_right == <<"r","i","g","h","t">>
S_middle == <<"m","i","d","d","l","e">>

\* a parser that lets an entry of unknown type through
UnknownTypeIgnored(action_type) == Parsed(NoAction)

\* line 71: raise ActionError(f"Unknown action type: {action_type}")
UnknownType(action_type) ==
    ParseFails("ActionError", "Unknown action type: ", action_type)

\* a parser that takes `wait` as it is given, with no `or 0.0`
OrZeroStrict(v) == v

\* line 49: data.get("wait", 0.0) or 0.0
OrZero(v) == Or(v, Float_(0))

\* lines 41-71
BaseAction_from_dict(data) ==
    LET action_type == ActionType(data)
    IN CASE action_type = T_launch_process ->
              LET args == PyList(Get(data.args, EmptyList))
                  wait == PyFloat(OrZero(Get(data.wait, Float_(0))))
              IN IF ~args.ok THEN ParseFails(args.exc, "list()", <<>>)
                 ELSE IF ~wait.ok THEN ParseFails(wait.exc, "float()", wait.arg)
                 ELSE Parsed(LaunchProcessAction(PyStr(Get(data.command, None)),
                                                 args.items, Get(data.cwd, None),
                                                 wait.n))
         [] action_type = T_send_keys ->
              Parsed(SendKeysAction(PyStr(Get(data.sequence, Str_(<<>>)))))
         [] action_type = T_type_text ->
              Parsed(TypeTextAction(PyStr(Get(data.text, Str_(<<>>)))))
         [] action_type = T_scroll ->
              LET amount == PyInt(Or(Get(data.amount, Int_(0)), Int_(0)))
              IN IF amount.ok
                   THEN Parsed(ScrollAction(amount.n,
                                            Truthy(Get(data.horizontal, PyFalse))))
                   ELSE ParseFails(amount.exc, "int()", amount.arg)
         [] action_type = T_wait ->
              LET ms == PyInt(Or(Get(data.milliseconds, Int_(0)), Int_(0)))
              IN IF ms.ok THEN Parsed(WaitAction(ms.n))
                          ELSE ParseFails(ms.exc, "int()", ms.arg)
         [] action_type = T_window_activate ->
              Parsed(WindowActivateAction(PyStr(Get(data.title, Str_(<<>>)))))
         [] action_type = T_mouse_click ->
              LET clicks == PyInt(Or(Get(data.clicks, Int_(1)), Int_(1)))
                  button == PyStr(Or(Get(data.button, Str_(S_left)), Str_(S_left)))
              IN IF clicks.ok
                   THEN Parsed(MouseClickAction(Get(data.x, None), Get(data.y, None),
                                                button, clicks.n))
                   ELSE ParseFails(clicks.exc, "int()", clicks.arg)
         [] OTHER -> UnknownType(action_type)

\* ------------------------------------------------ AutomationScript.from_dict
\* A script document: the keys from_dict reads.  `actions` is a list of
\* entries (t = "list") or some other value; `loop` is a mapping with its two
\* keys (t = "dict") or some other value.
ActionsList(items) == [t |-> "list", i |-> 0, items |-> items]
ActionsOther(v) == [t |-> v.t, i |-> v.i, items |-> <<>>]
LoopDict(repeat, until_stopped) ==
    [t |-> "dict", i |-> 0, repeat |-> repeat, until_stopped |-> until_stopped]
LoopOther(v) == [t |-> v.t, i |-> v.i, repeat |-> Absent, until_stopped |-> Absent]
Document(name, actions, loop, repeat, until_stopped) ==
    [given |-> TRUE, name |-> name, actions |-> actions, loop |-> loop,
     repeat |-> repeat, until_stopped |-> until_stopped]

\* line 28: isinstance(raw, dict)
IsMappingAlways(raw) == TRUE
IsMapping(raw) == raw.mapping

\* lines 25-29: the loop over actions_data; the first entry whose parse
\* raises ends from_dict with that exception
RECURSIVE ParseActions(_, _)
ParseActions(items, acc) ==
    IF items = <<>> THEN [ok |-> TRUE, actions |-> acc, failure |-> Parsed(NoAction)]
    ELSE IF ~IsMapping(Head(items)) THEN ParseActions(Tail(items), acc)
    ELSE LET r == BaseAction_from_dict(Head(items))
         IN IF r.ok THEN ParseActions(Tail(items), Append(acc, r.action))
                    ELSE [ok |-> FALSE, actions |-> <<>>, failure |-> r]

\* line 24 and 26: data.get("actions", []) or [], used only when a list
ActionsData(data) ==
    IF data.actions.t = "list" THEN data.actions.items ELSE <<>>

\* line 33-34: loop_cfg = data.get("loop") or {}, used only when a dict
LoopIsDict(data) ==
    \/ data.loop.t = "dict"
    \/ ~Truthy(Val(data.loop.t, data.loop.i, <<>>))

\* lines 35-40 and 43-48: max(1, int(value)), None when int() raises
RepeatFrom(v) == IF PyInt(v).ok THEN Max1(PyInt(v).n) ELSE NoRepeat

\* lines 35-40
LoopRepeat(data) ==
    IF LoopIsDict(data) /\ Get(data.loop.repeat, None) # None
      THEN RepeatFrom(data.loop.repeat)
      ELSE NoRepeat

\* line 41
LoopUntilStopped(data) ==
    LoopIsDict(data) /\ Truthy(Get(data.loop.until_stopped, PyFalse))

\* lines 43-48
RepeatCount(data) ==
    IF LoopRepeat(data) = NoRepeat /\ data.repeat # Absent
      THEN RepeatFrom(Or(Get(data.repeat, Int_(0)), Int_(0)))
      ELSE LoopRepeat(data)

\* lines 49-50
RepeatUntilStopped(data) ==
    IF ~LoopUntilStopped(data) /\ Truthy(Get(data.until_stopped, PyFalse))
      THEN TRUE
      ELSE LoopUntilStopped(data)

S_Unnamed == <<"U","n","n","a","m","e","d"," ","S","c","r","i","p","t">>

\* lines 21-57: the Script, or the exception that ends the call
AutomationScript_from_dict(data) ==
    LET parsed == ParseActions(ActionsData(data), <<>>)
    IN IF parsed.ok
         THEN [done |-> TRUE, ok |-> TRUE,
               script |-> [name |-> PyStr(Get(data.name, Str_(S_Unnamed))),
                           actions |-> parsed.actions,
                           repeat_count |-> RepeatCount(data),
                           repeat_until_stopped |-> RepeatUntilStopped(data)],
               failure |-> parsed.failure]
         ELSE [done |-> TRUE, ok |-> FALSE, failure |-> parsed.failure]

\* ------------------------------------------------ the parser as a machine
MaxEntries == 3

S_abc == <<"a","b","c">>
S_bogus == <<"b","o","g","u","s">>

\* entries of an `actions` list: a non-mapping, entries of known types that
\* parse, one whose number does not parse, and entries of unknown type
WaitEntry(type, ms) == Mapping(type, ms, Absent, Absent, Absent, Absent, Absent)
UnknownEntry(type) == Mapping(type, Absent, Absent, Absent, Absent, Absent, Absent)
ParseEntries ==
    { NotMapping,
      WaitEntry(Str_(<<" ","W","a","i","t"," ">>), Int_(250)),
      WaitEntry(Str_(T_wait), Str_(S_abc)),
      Mapping(Str_(T_window_activate), Absent, Absent, Absent, Absent, Absent,
              Str_(<<"n">>)),
      Mapping(Str_(T_mouse_click), Absent, Int_(0), Int_(7), Absent, Int_(2), Absent),
      UnknownEntry(Str_(<<" ","B","o","g","u","s">>)),
      UnknownEntry(Str_(<<"w","a","i","t","s">>)),
      UnknownEntry(Absent) }

RECURSIVE SeqsUpTo(_, _)
SeqsUpTo(S, n) ==
    IF n = 0 THEN {<<>>}
    ELSE LET shorter == SeqsUpTo(S, n - 1)
         IN shorter \cup {Append(q, e) : q \in shorter, e \in S}

LoopRepeatValues ==
    {Absent, None, Int_(0), Int_(3), Int_(0 - 2), Str_(S_abc), Str_(<<"2">>), PyTrue}
UntilStoppedValues == {Absent, None, PyTrue, PyFalse, Int_(1)}
LoopValues ==
    {LoopOther(Absent), LoopOther(None), LoopOther(Int_(5)), LoopOther(Int_(0))}
      \cup {LoopDict(r, u) : r \in LoopRepeatValues, u \in UntilStoppedValues}
TopRepeatValues == {Absent, None, Int_(0), Int_(2), Int_(0 - 1), Str_(S_abc)}

\* documents that vary the actions list, and documents that vary the loop
\* configuration
ActionDocuments ==
    {Document(Absent, ActionsList(items), LoopOther(Absent), Absent, Absent) :
        items \in SeqsUpTo(ParseEntries, MaxEntries)}
      \cup {Document(Absent, ActionsOther(v), LoopOther(Absent), Absent, Absent) :
              v \in {Absent, None, Str_(S_abc)}}
LoopDocuments ==
    {Document(n, ActionsList(<<>>), l, r, u) :
        n \in {Absent, Str_(<<"d">>)}, l \in LoopValues,
        r \in TopRepeatValues, u \in UntilStoppedValues}
Documents == ActionDocuments \cup LoopDocuments

InitParse == InitWithInput({[actions |-> <<>>, repeat_count |-> NoRepeat,
                             repeat_until_stopped |-> FALSE]}, {}, Documents)

\* one call of AutomationScript.from_dict (script_model.py 21-57)
FromDict ==
    /\ input.given
    /\ ~output.done
    /\ output' = AutomationScript_from_dict(input)
    /\ UNCHANGED <<input, clickerVars, engineVars, callerVars, workerVars, histVars>>

NextParse == FromDict

SpecParse == InitParse /\ [][NextParse]_vars

\* ----------------------------------------------------------------- C13
Items == IF input.given THEN ActionsData(input) ELSE <<>>

\* the entries of the list that are mappings of unknown (or no) type
UnknownAt == {k \in 1..Len(Items) :
                 Items[k].mapping /\ ActionType(Items[k]) \notin KnownTypes}
\* the mapping entries whose parse raises
FailingAt == {k \in 1..Len(Items) :
                 Items[k].mapping /\ ~BaseAction_from_dict(Items[k]).ok}
Least(S) == CHOOSE k \in S : \A j \in S : k <= j

NoScript == ~output.ok /\ "script" \notin DOMAIN output

\* C13 as stated: a document with an entry of unknown type always fails with
\* the error that names the type string of such an entry, and gives no Script.
C13_Original ==
    (output.done /\ UnknownAt # {}) =>
        /\ NoScript
        /\ output.failure.exc = "ActionError"
        /\ \E k \in UnknownAt : output.failure.arg = ActionType(Items[k])

\* C13: a document with an entry of unknown type always fails and gives no
\* Script; the failure is the one of the first entry whose parse raises, and
\* when that entry is the one of unknown type (all mapping entries before it
\* parse) the error is the ActionError naming its stripped, lower-cased type
\* string, wherever it stands in the list.
C13_UnknownTypeFailsFast ==
    (output.done /\ UnknownAt # {}) =>
        /\ NoScript
        /\ output.failure = BaseAction_from_dict(Items[Least(FailingAt)])
        /\ Least(FailingAt) \in UnknownAt =>
              /\ output.failure.exc = "ActionError"
              /\ output.failure.msg = "Unknown action type: "
              /\ output.failure.arg =
                    Lower(Strip(PyStr(Get(Items[Least(UnknownAt)].type, Str_(<<>>)))))

C13_Witness ==
    /\ output.done
    /\ Len(Items) = 3
    /\ UnknownAt = {3}
    /\ FailingAt = {3}
    /\ Items[1].mapping
    /\ Items[2].mapping
    /\ Items[3].type = Str_(<<" ","B","o","g","u","s">>)
    /\ NoScript
    /\ output.failure.arg = S_bogus

\* ----------------------------------------------------------------- C14
\* C14: the `loop` object has priority over the top-level keys: when
\* loop.until_stopped is given as true or false the Script's
\* repeat_until_stopped equals it whatever the top-level until_stopped is, and
\* when loop.repeat is given as an integer the Script's repeat_count is
\* max(1, loop.repeat) whatever the top-level repeat is.
C14_LoopObjectPriority ==
    (output.done /\ output.ok /\ input.loop.t = "dict") =>
        /\ input.loop.until_stopped \in {PyTrue, PyFalse} =>
              output.script.repeat_until_stopped = (input.loop.until_stopped = PyTrue)
        /\ input.loop.repeat.t = "int" =>
              output.script.repeat_count =
                 (IF input.loop.repeat.i < 1 THEN 1 ELSE input.loop.repeat.i)

\* ----------------------------------------------------------------- C15
Floored(n) == IF n < 1 THEN 1 ELSE n
LoopGivesNoRepeat ==
    input.loop.t # "dict" \/ input.loop.repeat \in {Absent, None}

\* C15: the parsed Script's repeat_count is None or an integer >= 1: an
\* integer given as loop.repeat, or as top-level repeat when the loop object
\* gives none, is floored to 1; a document with no loop, repeat or
\* until_stopped key gives repeat_count None and repeat_until_stopped false.
C15_RepeatCountFloored ==
    (output.done /\ output.ok) =>
        LET rc == output.script.repeat_count
        IN /\ rc = NoRepeat \/ rc >= 1
           /\ (input.loop.t = "dict" /\ input.loop.repeat.t = "int") =>
                 rc = Floored(input.loop.repeat.i)
           /\ (LoopGivesNoRepeat /\ input.repeat.t = "int") =>
                 rc = Floored(input.repeat.i)
           /\ (input.loop = LoopOther(Absent) /\ input.repeat = Absent
                 /\ input.until_stopped = Absent) =>
                 (rc = NoRepeat /\ ~output.script.repeat_until_stopped)

C15_Witness ==
    /\ output.done
    /\ input.loop.t = "dict"
    /\ input.loop.repeat = Int_(0 - 2)
    /\ input.repeat = Int_(0)
    /\ output.ok
    /\ output.script.repeat_count = 1

\* ----------------------------------------------------------------- C16
EntryIsMapping(e) == e.mapping
MappingEntries == SelectSeq(Items, EntryIsMapping)

\* C16: when the mapping entries of a list parse, from_dict succeeds and the
\* Script's actions are the parsed mapping entries, one for one and in their
\* original order, whatever non-mapping entries stand between them.
C16_NonMappingSkipped ==
    (output.done /\ FailingAt = {}) =>
        /\ output.ok
        /\ Len(output.script.actions) = Len(MappingEntries)
        /\ \A k \in 1..Len(MappingEntries) :
              output.script.actions[k] = BaseAction_from_dict(MappingEntries[k]).action

C16_Witness ==
    /\ output.done
    /\ Len(Items) = 3
    /\ Items[1].mapping
    /\ Items[2] = NotMapping
    /\ Items[3].mapping
    /\ output.ok
    /\ output.script.actions =
          <<WaitAction(250), MouseClickAction(Int_(0), Int_(7), S_left, 2)>>

\* ------------------------------------------------ RunContext and run()
\* What a run of one action does to the outside: the calls it makes, in
\* order.  tag is "log" (the logger was called), "sleep" (x/y seconds),
\* "focus" (the window got the focus), "move" (pointer set to x, y) or
\* "press" (one click of `button` on `backend`, with coordinates x, y passed
\* when positioned).
Event(tag, backend, button, positioned, x, y) ==
    [tag |-> tag, backend |-> backend, button |-> button,
     positioned |-> positioned, x |-> x, y |-> y]
LogEvent == Event("log", "", <<>>, FALSE, 0, 0)
SleepEvent(num, den) == Event("sleep", "", <<>>, FALSE, num, den)
FocusEvent == Event("focus", "pywinauto", <<>>, FALSE, 0, 0)
MoveEvent(x, y) == Event("move", "pynput", <<>>, TRUE, x, y)
PressEvent(backend, button, positioned, x, y) ==
    Event("press", backend, button, positioned, x, y)

Returns(events) == [raised |-> FALSE, exc |-> "", events |-> events]
Raises(exc, events) == [raised |-> TRUE, exc |-> exc, events |-> events]

\* a RunContext.log that lets the logger's exception out
CtxLogPropagatesWhenRaises(env) == env.logger = "raises"

\* RunContext.log (302-307) calls the logger, the Engine's _log, inside
\* try/except Exception: pass; _log (engine.py 43-48) does the same around
\* the on_log callback
CtxLogPropagates(env) == FALSE

\* RunContext.log: the callback is called when one is registered
CtxLog(env) == IF env.logger = "none" THEN <<>> ELSE <<LogEvent>>

\* a sleep_ms without the max(ms, 0)
Max0Identity(n) == n

\* line 316: max(ms, 0)
Max0(n) == IF n < 0 THEN 0 ELSE n

\* lines 309-313: time.sleep(seconds), which raises ValueError when negative
Sleep(num, den) ==
    IF num < 0 THEN Raises("ValueError", <<>>)
               ELSE Returns(<<SleepEvent(num, den)>>)

\* lines 315-316: self.sleep(max(ms, 0) / 1000.0)
SleepMs(ms) == Sleep(Max0(ms), 1000)

\* WaitAction.run (96-97)
WaitRun(action, env) == SleepMs(action.milliseconds)

\* WindowActivateAction.run (210-223)
WindowActivateRun(action, env) ==
    IF action.title = <<>> THEN Returns(<<>>)
    ELSE IF env.win /\ env.pywinauto = "ok" THEN Returns(<<FocusEvent>>)
    ELSE IF CtxLogPropagates(env) THEN Raises("Exception", CtxLog(env))
    ELSE IF env.win THEN Returns(CtxLog(env) \o CtxLog(env))
    ELSE Returns(CtxLog(env))

\* ------------------------------------------------ MouseClickAction.run
MaxFailAfter == 2

\* a test of the coordinates by truth value instead of `is not None`
IsGivenTruthy(v) == Truthy(v)

\* lines 243, 254: self.x is not None
IsGiven(v) == v # None

BothGiven(action) == IsGiven(action.x) /\ IsGiven(action.y)

\* line 236
BtnName(action) ==
    IF action.button \in {S_left, S_right, S_middle} THEN action.button ELSE S_left

\* line 237: max(1, int(self.clicks or 1))
ClickCount(action) == Max1(IF action.clicks # 0 THEN action.clicks ELSE 1)

Presses(backend, button, positioned, x, y, n) ==
    [k \in 1..n |-> PressEvent(backend, button, positioned, x, y)]

\* the presses a backend delivers: all `count`, or those before it raises
Delivered(how, after, count) ==
    IF how = "late" /\ after < count THEN after ELSE count

\* lines 240-248: the pynput backend
Primary(action, env) ==
    LET count == ClickCount(action)
        xi == PyInt(action.x)
        yi == PyInt(action.y)
        move == IF BothGiven(action) THEN <<MoveEvent(xi.n, yi.n)>> ELSE <<>>
        n == Delivered(env.primary, env.primaryAfter, count)
        clicks == Presses("pynput", BtnName(action), FALSE, 0, 0, n)
    IN IF env.primary = "early" THEN Raises("Exception", <<>>)
       ELSE IF BothGiven(action) /\ ~(xi.ok /\ yi.ok) THEN Raises("ValueError", <<>>)
       ELSE IF n < count THEN Raises("Exception", move \o clicks)
       ELSE Returns(move \o clicks)

\* lines 252-261: the pyautogui backend
Fallback(action, env) ==
    LET count == ClickCount(action)
        xi == PyInt(action.x)
        yi == PyInt(action.y)
        n == Delivered(env.fallback, env.fallbackAfter, count)
        clicks == IF BothGiven(action)
                    THEN Presses("pyautogui", BtnName(action), TRUE, xi.n, yi.n, n)
                    ELSE Presses("pyautogui", BtnName(action), FALSE, 0, 0, n)
    IN IF env.fallback = "early" THEN Raises("ActionError", <<>>)
       ELSE IF BothGiven(action) /\ ~(xi.ok /\ yi.ok) THEN Raises("ActionError", <<>>)
       ELSE IF n < count THEN Raises("ActionError", clicks)
       ELSE Returns(clicks)

\* lines 233-261
MouseClickRun(action, env) ==
    LET first == CtxLog(env)
        p == Primary(action, env)
        f == Fallback(action, env)
        before == IF env.primary = "missing" THEN first
                  ELSE first \o p.events \o CtxLog(env)
    IN IF CtxLogPropagates(env) THEN Raises("Exception", first)
       ELSE IF env.primary # "missing" /\ ~p.raised THEN Returns(first \o p.events)
       ELSE IF f.raised THEN Raises("ActionError", before \o f.events)
       ELSE Returns(before \o f.events)

\* ------------------------------------------------ ScrollAction.run
\* one scroll call of a backend by (x, y) wheel steps; pyautogui has one call
\* per direction (hscroll when `positioned`)
ScrollEvent(backend, horizontal, dx, dy) == Event("scroll", backend, <<>>, horizontal, dx, dy)

\* whether a backend's single call goes through
Works(how, after) == Delivered(how, after, 1) = 1 /\ how \notin {"early", "missing"}

\* a run with no second backend
ScrollFallbackAbsent(action, env) == Raises("ActionError", <<>>)

\* lines 284-292: the pyautogui backend
ScrollFallback(action, env) ==
    IF Works(env.fallback, env.fallbackAfter)
      THEN Returns(<<ScrollEvent("pyautogui", action.horizontal, action.amount, 0)>>)
      ELSE Raises("ActionError", <<>>)

\* lines 269-292
ScrollRun(action, env) ==
    LET first == CtxLog(env)
        f == ScrollFallback(action, env)
        done == IF action.horizontal
                  THEN ScrollEvent("pynput", FALSE, action.amount, 0)
                  ELSE ScrollEvent("pynput", FALSE, 0, action.amount)
        before == IF env.primary = "missing" THEN first ELSE first \o CtxLog(env)
    IN IF CtxLogPropagates(env) THEN Raises("Exception", first)
       ELSE IF Works(env.primary, env.primaryAfter) THEN Returns(first \o <<done>>)
       ELSE IF f.raised THEN Raises(f.exc, before \o f.events)
       ELSE Returns(before \o f.events)

\* ------------------------------------------------ LaunchProcessAction.run
\* one call of subprocess.Popen for `command`, which started the process or
\* raised
SpawnEvent(command, started) == Event("spawn", "subprocess", command, started, 0, 0)

\* a run that sleeps whatever the wait is
ShouldSleepAlways(wait) == TRUE

\* line 88: if self.wait > 0
ShouldSleep(wait) == wait > 0

\* lines 81-89
LaunchProcessRun(action, env) ==
    IF action.command = <<>> THEN Raises("ActionError", <<>>)
    ELSE IF env.spawn # "ok"
      THEN Raises("ActionError", <<SpawnEvent(action.command, FALSE)>>)
    ELSE IF ShouldSleep(action.wait)
      THEN LET slept == Sleep(action.wait, 1000)
           IN [slept EXCEPT !.events = <<SpawnEvent(action.command, TRUE)>> \o @]
    ELSE Returns(<<SpawnEvent(action.command, TRUE)>>)

\* ------------------------------------------------ _tokenize_keys
MaxKeys == 5

\* lines 155-170: one pass over the characters; `out` are the parts found,
\* `buf` the part being read, in_tag whether a '<' is open
RECURSIVE ScanKeys(_, _, _, _)
ScanKeys(chars, out, buf, in_tag) ==
    IF chars = <<>> THEN (IF buf # <<>> THEN Append(out, buf) ELSE out)
    ELSE LET ch == Head(chars)
         IN IF ch = "<"
              THEN ScanKeys(Tail(chars), IF buf # <<>> THEN Append(out, buf) ELSE out,
                            <<ch>>, TRUE)
            ELSE IF ch = ">" /\ in_tag
              THEN ScanKeys(Tail(chars), Append(out, Append(buf, ch)), <<>>, FALSE)
            ELSE ScanKeys(Tail(chars), out, Append(buf, ch), in_tag)

\* line 177: [p for p in part.split(" ") if p]
RECURSIVE SplitSpaces(_, _)
SplitSpaces(chars, word) ==
    IF chars = <<>> THEN (IF word # <<>> THEN <<word>> ELSE <<>>)
    ELSE IF Head(chars) = " "
      THEN (IF word # <<>> THEN <<word>> ELSE <<>>) \o SplitSpaces(Tail(chars), <<>>)
    ELSE SplitSpaces(Tail(chars), Append(word, Head(chars)))

\* a second pass that splits every part
IsBracketedNever(part) == FALSE

\* line 174: part.startswith("<") and part.endswith(">")
IsBracketed(part) == part # <<>> /\ Head(part) = "<" /\ part[Len(part)] = ">"

\* lines 172-177
RECURSIVE FlattenParts(_)
FlattenParts(parts) ==
    IF parts = <<>> THEN <<>>
    ELSE (IF IsBracketed(Head(parts)) THEN <<Head(parts)>>
                                      ELSE SplitSpaces(Head(parts), <<>>))
           \o FlattenParts(Tail(parts))

\* lines 150-178
TokenizeKeys(sequence) == FlattenParts(ScanKeys(sequence, <<>>, <<>>, FALSE))

\* ------------------------------------------------ keyboard actions
\* one kb.press(key); kb.release(key) of the pynput keyboard; key is a
\* character, or the name of the Key member a token stands for
KeyEvent(key) == Event("key", "pynput", key, FALSE, 0, 0)
\* one call of pywinauto's send_keys with the whole text
SendEvent(text) == Event("send_keys", "pywinauto", text, FALSE, 0, 0)

\* _try_pywinauto_send_keys (337-351)
TryPywinautoSendKeys(text, env) ==
    IF ~env.win THEN [ok |-> FALSE, raised |-> FALSE, events |-> <<>>]
    ELSE IF env.pywinauto = "ok"
      THEN [ok |-> TRUE, raised |-> FALSE, events |-> <<SendEvent(text)>>]
    ELSE [ok |-> FALSE, raised |-> CtxLogPropagates(env), events |-> CtxLog(env)]

\* lines 118-133: token_map.get(token)
TokenMap(token) ==
    CASE token = <<"<","E","N","T","E","R",">">> -> <<"e","n","t","e","r">>
      [] token = <<"<","T","A","B",">">> -> <<"t","a","b">>
      [] token = <<"<","E","S","C",">">> -> <<"e","s","c">>
      [] token = <<"<","B","A","C","K","S","P","A","C","E",">">> -> <<"b","a","c","k","s","p","a","c","e">>
      [] token = <<"<","D","E","L","E","T","E",">">> -> <<"d","e","l","e","t","e">>
      [] token = <<"<","H","O","M","E",">">> -> <<"h","o","m","e">>
      [] token = <<"<","E","N","D",">">> -> <<"e","n","d">>
      [] token = <<"<","P","A","G","E","_","U","P",">">> -> <<"p","a","g","e","_","u","p">>
      [] token = <<"<","P","A","G","E","_","D","O","W","N",">">> -> <<"p","a","g","e","_","d","o","w","n">>
      [] token = <<"<","U","P",">">> -> <<"u","p">>
      [] token = <<"<","D","O","W","N",">">> -> <<"d","o","w","n">>
      [] token = <<"<","L","E","F","T",">">> -> <<"l","e","f","t">>
      [] token = <<"<","R","I","G","H","T",">">> -> <<"r","i","g","h","t">>
      [] token = <<"<","S","P","A","C","E",">">> -> <<" ">>
      [] OTHER -> None

\* lines 136-144: the keys one token is sent as
KeysOfToken(token) ==
    IF TokenMap(token) = None THEN [k \in 1..Len(token) |-> KeyEvent(<<token[k]>>)]
                              ELSE <<KeyEvent(TokenMap(token))>>

RECURSIVE KeysOfTokens(_)
KeysOfTokens(tokens) ==
    IF tokens = <<>> THEN <<>>
    ELSE KeysOfToken(Head(tokens)) \o KeysOfTokens(Tail(tokens))

\* the keys the pynput keyboard takes before it raises, or all of them
Typed(keys, env) ==
    SubSeq(keys, 1, Delivered(env.keyboard, env.keyboardAfter, Len(keys)))
KeyboardRaises(keys, env) == env.keyboard = "late" /\ env.keyboardAfter < Len(keys)

\* a run that goes on to the backends with nothing to send
IsEmptyNever(text) == FALSE

\* lines 105, 186: not self.sequence / not self.text
IsEmpty(text) == text = <<>>

\* SendKeysAction.run (104-147)
SendKeysRun(action, env) ==
    IF IsEmpty(action.sequence) THEN Returns(<<>>)
    ELSE LET pw == TryPywinautoSendKeys(action.sequence, env)
             keys == KeysOfTokens(TokenizeKeys(action.sequence))
         IN IF pw.raised THEN Raises("Exception", pw.events)
            ELSE IF pw.ok THEN Returns(pw.events \o Sleep(50, 1000).events)
            ELSE IF env.keyboard = "missing" THEN Raises("ActionError", pw.events)
            ELSE IF KeyboardRaises(keys, env)
              THEN Raises("Exception", pw.events \o Typed(keys, env))
            ELSE Returns(pw.events \o keys \o Sleep(50, 1000).events)

\* typing with no pause between the characters
UnpacedKey(ch) == <<KeyEvent(<<ch>>)>>

\* lines 198-201: kb.press(ch); kb.release(ch); ctx.sleep(0.01)
PacedKey(ch) == <<KeyEvent(<<ch>>)>> \o Sleep(10, 1000).events

RECURSIVE PacedKeys(_)
PacedKeys(text) ==
    IF text = <<>> THEN <<>> ELSE PacedKey(Head(text)) \o PacedKeys(Tail(text))

\* the events of the loop of lines 198-201 when the keyboard raises at its
\* (keyboardAfter + 1)-th key
RECURSIVE PacedUntil(_, _)
PacedUntil(text, n) ==
    IF n = 0 \/ text = <<>> THEN <<>>
    ELSE PacedKey(Head(text)) \o PacedUntil(Tail(text), n - 1)

\* TypeTextAction.run (185-203)
TypeTextRun(action, env) ==
    IF IsEmpty(action.text) THEN Returns(<<>>)
    ELSE LET pw == TryPywinautoSendKeys(action.text, env)
         IN IF pw.raised THEN Raises("Exception", pw.events)
            ELSE IF pw.ok THEN Returns(pw.events \o Sleep(100, 1000).events)
            ELSE IF env.keyboard = "missing" THEN Raises("ActionError", pw.events)
            ELSE IF KeyboardRaises(action.text, env)
              THEN Raises("Exception",
                          pw.events \o PacedUntil(action.text, env.keyboardAfter))
            ELSE Returns(pw.events \o PacedKeys(action.text) \o Sleep(100, 1000).events)

\* action.run(ctx) (engine.py 58)
Run(action, env) ==
    CASE action.kind = "WaitAction"           -> WaitRun(action, env)
      [] action.kind = "LaunchProcessAction"  -> LaunchProcessRun(action, env)
      [] action.kind = "WindowActivateAction" -> WindowActivateRun(action, env)
      [] action.kind = "MouseClickAction"     -> MouseClickRun(action, env)
      [] action.kind = "SendKeysAction"       -> SendKeysRun(action, env)
      [] action.kind = "TypeTextAction"       -> TypeTextRun(action, env)
      [] action.kind = "ScrollAction"         -> ScrollRun(action, env)

\* ------------------------------------------------ a run as a machine
\* The surroundings of a run: whether an on_log callback is registered and
\* raises, the platform, and how each backend behaves: "missing" (import
\* fails), "ok", "early" (raises before any press), "late" (raises after
\* `After` presses).
\* spawn says whether subprocess.Popen starts the process ("ok") or raises;
\* keyboard and keyboardAfter describe the pynput keyboard like a click
\* backend.
Env(logger, win, pywinauto, primary, primaryAfter, fallback, fallbackAfter) ==
    [logger |-> logger, win |-> win, pywinauto |-> pywinauto,
     primary |-> primary, primaryAfter |-> primaryAfter,
     fallback |-> fallback, fallbackAfter |-> fallbackAfter,
     spawn |-> "ok", keyboard |-> "ok", keyboardAfter |-> 0]
SpawnEnv(spawn) ==
    [Env("ok", FALSE, "fails", "ok", 0, "ok", 0) EXCEPT !.spawn = spawn]

Loggers == {"none", "ok", "raises"}
PlainEnvs == {Env(l, FALSE, "fails", "ok", 0, "ok", 0) : l \in Loggers}
WindowEnvs ==
    {Env(l, w, p, "ok", 0, "ok", 0) :
        l \in Loggers, w \in BOOLEAN, p \in {"ok", "fails"}}
BackendStates == {<<"ok", 0>>, <<"early", 0>>} \cup {<<"late", k>> : k \in 0..MaxFailAfter}
MouseEnvs ==
    {Env(l, FALSE, "fails", p[1], p[2], f[1], f[2]) :
        l \in Loggers, p \in BackendStates \cup {<<"missing", 0>>}, f \in BackendStates}

WaitEntries ==
    {WaitEntry(Str_(T_wait), ms) :
        ms \in {Absent, None, Int_(0 - 5), Int_(0), Int_(250),
                Str_(<<"4","0">>), Str_(S_abc)}}
WindowEntries ==
    {Mapping(Str_(T_window_activate), Absent, Absent, Absent, Absent, Absent, t) :
        t \in {Absent, Str_(<<>>), Str_(<<"n">>)}}
MouseEntries ==
    {Mapping(Str_(T_mouse_click), Absent, x, y, b, c, Absent) :
        x \in {Absent, None, Int_(0), Int_(7), Str_(S_abc)},
        y \in {Absent, Int_(0), Int_(7)},
        b \in {Absent, Str_(<<>>), Str_(S_right), Str_(<<"R","i","g","h","t">>),
               Str_(S_middle)},
        c \in {Absent, Int_(0), Int_(0 - 1), Int_(2), Int_(3)}}

LaunchEntries ==
    {LaunchEntry(c, g, Absent, w) :
        c \in {Absent, Str_(<<>>), Str_(<<"n">>)},
        g \in {Absent, None, List_(<<<<"a">>>>), Str_(<<"a","b">>)},
        w \in {Absent, None, Int_(0), Int_(2), Int_(0 - 5), Float_(500),
               Float_(0 - 1500), Str_(<<"1",".","5">>), Str_(S_abc)}}

MaxPieces == 3
KeyPieces == {<<"a">>, <<" ">>, <<"<","E","N","T","E","R",">">>,
              <<"<","S","P","A","C","E",">">>, <<"<","a",">">>}
RECURSIVE PieceTexts(_)
PieceTexts(n) ==
    IF n = 0 THEN {<<>>}
    ELSE PieceTexts(n - 1) \cup {t \o p : t \in PieceTexts(n - 1), p \in KeyPieces}
KeyboardEntries ==
    {SendKeysEntry(Str_(t)) : t \in PieceTexts(MaxPieces)}
      \cup {TypeTextEntry(Str_(t)) : t \in SeqsUpTo({"a", " "}, MaxPieces)}
      \cup {SendKeysEntry(Absent), TypeTextEntry(Absent)}
KeyboardEnvs ==
    {[Env(l, w, p, "ok", 0, "ok", 0) EXCEPT !.keyboard = k[1], !.keyboardAfter = k[2]] :
        l \in Loggers, w \in BOOLEAN, p \in {"ok", "fails"},
        k \in {<<"missing", 0>>, <<"ok", 0>>} \cup {<<"late", n>> : n \in 0..MaxFailAfter}}

ScrollEntries ==
    {ScrollEntry(a, h) :
        a \in {Absent, None, Int_(0), Int_(3), Int_(0 - 3), Str_(S_abc)},
        h \in {Absent, PyTrue, PyFalse}}

RunInput(entry, env) == [given |-> TRUE, entry |-> entry, env |-> env]
\* the documents of each kind with the surroundings their run depends on
RunInputs ==
    << <<WaitEntries, PlainEnvs>>,
       <<LaunchEntries, {SpawnEnv(s) : s \in {"ok", "fails"}}>>,
       <<WindowEntries, WindowEnvs>>,
       <<MouseEntries, MouseEnvs>>,
       <<KeyboardEntries, KeyboardEnvs>>,
       <<ScrollEntries, MouseEnvs>> >>

InitRun ==
    \E k \in 1..Len(RunInputs) :
        InitWithInput({[actions |-> <<>>, repeat_count |-> NoRepeat,
                        repeat_until_stopped |-> FALSE]}, {},
                      {RunInput(e, v) : e \in RunInputs[k][1], v \in RunInputs[k][2]})

\* the action is built from its document (actions.py 41-71) and run once with
\* the Engine's RunContext (engine.py 51, 58)
ParseAndRun ==
    /\ input.given
    /\ ~output.done
    /\ LET parsed == BaseAction_from_dict(input.entry)
       IN output' = IF parsed.ok
                      THEN [done |-> TRUE, parsed |-> TRUE, action |-> parsed.action,
                            result |-> Run(parsed.action, input.env)]
                      ELSE [done |-> TRUE, parsed |-> FALSE, action |-> NoAction,
                            result |-> Raises(parsed.exc, <<>>)]
    /\ UNCHANGED <<input, clickerVars, engineVars, callerVars, workerVars, histVars>>

NextRun == ParseAndRun

SpecRun == InitRun /\ [][NextRun]_vars

\* ----------------------------------------------------------------- C17
Ran(kind) == output.done /\ output.parsed /\ output.action.kind = kind
EventsOf(tag) == SelectSeq(output.result.events, LAMBDA e : e.tag = tag)

\* C17: a Wait whose milliseconds are zero or negative returns normally and
\* calls sleep with no positive duration; a Wait of m > 0 milliseconds calls
\* sleep exactly once, with m/1000 seconds.
C17_WaitSleeps ==
    Ran("WaitAction") =>
        LET m == output.action.milliseconds
        IN /\ m <= 0 => /\ ~output.result.raised
                        /\ \A k \in 1..Len(EventsOf("sleep")) :
                              EventsOf("sleep")[k].x <= 0
           /\ m > 0 => /\ ~output.result.raised
                       /\ output.result.events = <<SleepEvent(m, 1000)>>

C17_Witness ==
    /\ Ran("WaitAction")
    /\ input.entry.milliseconds = Int_(0 - 5)
    /\ output.action.milliseconds = 0 - 5
    /\ ~output.result.raised
    /\ output.result.events = <<SleepEvent(0, 1000)>>

\* ----------------------------------------------------------------- C18
\* C18: the run of a WindowActivate action always returns normally: with an
\* empty title, off Windows, with the window backend failing, and with an
\* on_log callback that raises; all it does is give the focus or log.
C18_WindowActivateNeverRaises ==
    Ran("WindowActivateAction") =>
        /\ ~output.result.raised
        /\ \A k \in 1..Len(output.result.events) :
              output.result.events[k].tag \in {"log", "focus"}
        /\ output.action.title = <<>> => output.result.events = <<>>

C18_Witness ==
    /\ Ran("WindowActivateAction")
    /\ output.action.title = <<"n">>
    /\ input.env.win
    /\ input.env.pywinauto = "fails"
    /\ input.env.logger = "raises"
    /\ ~output.result.raised
    /\ output.result.events = <<LogEvent, LogEvent>>

\* ----------------------------------------------------------------- C19
PressesDone == EventsOf("press")
ExpectedButton ==
    LET b == input.entry.button
    IN IF b \in {Str_(S_left), Str_(S_right), Str_(S_middle)} THEN b.s ELSE S_left
ExpectedCount ==
    LET c == input.entry.clicks
    IN IF c.t = "int" /\ c.i >= 1 THEN c.i ELSE 1

\* C19: a mouse_click run that returns normally has pressed the button
\* max(1, clicks) times (1 when clicks is absent, 0 or negative), each time
\* the given button when it is left, right or middle and left otherwise.
C19_ClickCountAndButton ==
    (Ran("MouseClickAction") /\ ~output.result.raised) =>
        /\ Len(PressesDone) = ExpectedCount
        /\ \A k \in 1..Len(PressesDone) : PressesDone[k].button = ExpectedButton

\* ----------------------------------------------------------------- C20
DocGives(v) == v \notin {Absent, None}
BothInDocument == DocGives(input.entry.x) /\ DocGives(input.entry.y)
MovesDone == EventsOf("move")

\* C20: the pointer is set (pynput) or coordinates are passed with the click
\* (pyautogui) only when the document gives both x and y, and then every
\* press is positioned: pynput presses follow a move to (x, y), pyautogui
\* presses carry (x, y); a coordinate of 0 is a given one.  When x or y is
\* missing no press is positioned and the pointer is never moved.
C20_PositionedIffBothGiven ==
    Ran("MouseClickAction") =>
        /\ ~BothInDocument =>
              /\ MovesDone = <<>>
              /\ \A k \in 1..Len(PressesDone) : ~PressesDone[k].positioned
        /\ BothInDocument =>
              \A k \in 1..Len(PressesDone) :
                 LET e == PressesDone[k]
                 IN IF e.backend = "pynput"
                      THEN MovesDone = <<MoveEvent(input.entry.x.i, input.entry.y.i)>>
                      ELSE /\ e.positioned
                           /\ e.x = input.entry.x.i
                           /\ e.y = input.entry.y.i

C20_Witness ==
    /\ Ran("MouseClickAction")
    /\ input.entry.x = Int_(0)
    /\ input.entry.y = Int_(7)
    /\ input.env.primary = "late"
    /\ input.env.primaryAfter = 1
    /\ input.env.fallback = "ok"
    /\ ~output.result.raised
    /\ MovesDone = <<MoveEvent(0, 7)>>
    /\ \E k \in 1..Len(PressesDone) :
          PressesDone[k].backend = "pyautogui" /\ PressesDone[k].positioned
    /\ \E k \in 1..Len(PressesDone) : PressesDone[k].backend = "pynput"

\* ------------------------------------------------ run_script.py: main()
\* What main() is given: whether sys.argv has a path, whether the path
\* exists, and whether json.loads and AutomationScript.from_dict return
\* (the script they return is `script`).
CliInput(argv, exists, loads) ==
    [given |-> TRUE, argv |-> argv, exists |-> exists, loads |-> loads]
CliInputs == {CliInput(a, e, l) : a, e, l \in BOOLEAN}

\* where main() is: at a statement, returned with an exit code, or left by
\* an exception (the interpreter then exits with status 1)
Cli(at, exit) == [done |-> at \in {"returned", "raised"}, at |-> at, exit |-> exit]
CliAt(at) == output # NotRun /\ output.at = at

InitCli == InitWithInput(AutomationScript, {1}, CliInputs)

\* lines 19-25: the two tests that return 2
CliCheckPath ==
    /\ output = NotRun
    /\ output' = IF input.argv /\ input.exists
                   THEN Cli("load", 0)
                   ELSE Cli("returned", 2)
    /\ UNCHANGED <<input, clickerVars, engineVars, callerVars, workerVars, histVars>>

\* lines 26-27: json.loads and from_dict, either of which may raise
CliLoad ==
    /\ CliAt("load")
    /\ output' = IF input.loads THEN Cli("engine", 0) ELSE Cli("raised", 1)
    /\ UNCHANGED <<input, clickerVars, engineVars, callerVars, workerVars, histVars>>

\* lines 28-30: the Engine is made and both callbacks (print) registered
CliEngine ==
    /\ CliAt("engine")
    /\ onLog' = TRUE
    /\ onDone' = TRUE
    /\ output' = Cli("start", 0)
    /\ UNCHANGED <<input, clickerVars, script, thread, stop, callerVars, workerVars, histVars>>

\* a join that does not wait
ThreadJoinReturnsAtOnce(t) == TRUE

\* line 34: Thread.join() with no timeout returns when the thread has ended
ThreadJoinReturns(t) == ~Alive(t)

\* lines 33-35: engine._thread.join(); return 0
CliJoinReturn ==
    /\ CliAt("start")
    /\ cpc[1] = "idle"
    /\ thread # NoThread
    /\ ThreadJoinReturns(thread)
    /\ output' = Cli("returned", 0)
    /\ UNCHANGED <<input, clickerVars, engineVars, callerVars, workerVars, histVars>>

\* main() as the one caller of the engine: line 31 is one start() call
NextCli ==
    \/ CliCheckPath
    \/ CliLoad
    \/ CliEngine
    \/ (CliAt("start") /\ thread = NoThread /\ StartCheck(1))
    \/ StartClear(1)
    \/ StartCreate(1)
    \/ StartRun(1)
    \/ CliJoinReturn
    \/ \E w \in Workers :
         \/ WorkerCheck(w)
         \/ WorkerLog(w)
         \/ WorkerRunBegin(w)
         \/ WorkerRunEnd(w)
         \/ WorkerFinish(w)
         \/ WorkerDoneReturn(w)

SpecCli == InitCli /\ [][NextCli]_vars

\* ----------------------------------------------------------------- C21
CliExit(n) == output # NotRun /\ output.at = "returned" /\ output.exit = n
BadPath == ~input.argv \/ ~input.exists

\* C21: main() returns 2 exactly when the path argument is missing or names
\* no file, straight from its two tests, with no Engine made or started (no
\* callback registered, no thread); it returns 0 only when the worker thread
\* has ended and on_done has printed its one DONE line, whatever the outcome.
C21_CliExitCodes ==
    /\ [](CliExit(2) =>
            /\ BadPath
            /\ thread = NoThread /\ ~onLog /\ ~onDone
            /\ \A w \in Workers : wpc[w] = "unborn")
    /\ []((output # NotRun /\ BadPath) => CliExit(2))
    /\ []((output # NotRun /\ output.exit = 2) => CliExit(2))
    /\ [](CliExit(0) =>
            /\ ~BadPath
            /\ wpc[thread] = "dead"
            /\ Len(DoneEvents(thread)) = 1
            /\ Len(Invocations(thread)) = 1
            /\ DoneEvents(thread)[1][2] \in FinishOutcomes)
    /\ [][output'.done => (output' = output \/ ~output.done)]_vars

C21_Witness ==
    /\ CliExit(0)
    /\ NumActions = 2
    /\ wpc[thread] = "dead"
    /\ Invocations(thread) = <<DoneWith(Errored(ErrorText("LaunchProcessAction", 2)))>>

\* ------------------------------------------------ serialize, then parse
\* The document form of an action: its type string and every field under the
\* key from_dict reads it from.  (The repository has no serializer; this is
\* the document form the specification's round-trip property speaks of.)
Serialize(a) ==
    CASE a.kind = "LaunchProcessAction" ->
           LaunchEntry(Str_(a.command), List_(a.args), a.cwd, Float_(a.wait))
      [] a.kind = "WaitAction" ->
           Mapping(Str_(T_wait), Int_(a.milliseconds), Absent, Absent, Absent,
                   Absent, Absent)
      [] a.kind = "SendKeysAction" -> SendKeysEntry(Str_(a.sequence))
      [] a.kind = "TypeTextAction" -> TypeTextEntry(Str_(a.text))
      [] a.kind = "WindowActivateAction" ->
           Mapping(Str_(T_window_activate), Absent, Absent, Absent, Absent, Absent,
                   Str_(a.title))
      [] a.kind = "MouseClickAction" ->
           Mapping(Str_(T_mouse_click), Absent, a.x, a.y, Str_(a.button),
                   Int_(a.clicks), Absent)
      [] a.kind = "ScrollAction" ->
           ScrollEntry(Int_(a.amount), IF a.horizontal THEN PyTrue ELSE PyFalse)

\* values of the seven dataclasses, the ones default filling touches included
Texts == {<<>>, <<"a">>, <<"<","T","A","B",">">>}
ActionValues ==
    {LaunchProcessAction(c, g, d, w) :
        c \in {<<>>, <<"n">>}, g \in {<<>>, <<<<"a">>>>, <<<<"a">>, <<"-","v">>>>},
        d \in {None, Str_(<<"d">>)}, w \in {0, 500, 2000, 0 - 1500}}
      \cup {WaitAction(ms) : ms \in {0 - 5, 0, 250}}
      \cup {SendKeysAction(s) : s \in Texts}
      \cup {TypeTextAction(s) : s \in Texts}
      \cup {WindowActivateAction(s) : s \in Texts}
      \cup {MouseClickAction(x, y, b, c) :
              x \in {None, Int_(0), Int_(7)}, y \in {None, Int_(0), Int_(7)},
              b \in {<<>>, S_left, S_right, <<"R","i","g","h","t">>},
              c \in {0 - 1, 0, 1, 3}}
      \cup {ScrollAction(n, h) : n \in {0 - 3, 0, 2}, h \in BOOLEAN}

ActionInput(a) == [given |-> TRUE, action |-> a]

InitRoundTrip == InitWithInput({[actions |-> <<>>, repeat_count |-> NoRepeat,
                                 repeat_until_stopped |-> FALSE]}, {},
                               {ActionInput(a) : a \in ActionValues})

\* BaseAction.from_dict(serialize(action))
RoundTrip ==
    /\ input.given
    /\ ~output.done
    /\ output' = [done |-> TRUE, document |-> Serialize(input.action),
                  parse |-> BaseAction_from_dict(Serialize(input.action))]
    /\ UNCHANGED <<input, clickerVars, engineVars, callerVars, workerVars, histVars>>

NextRoundTrip == RoundTrip

SpecRoundTrip == InitRoundTrip /\ [][NextRoundTrip]_vars

\* ----------------------------------------------------------------- C22
\* the default-filling rules: a click count of 0 is 1, an empty button is left
Filled(a) ==
    IF a.kind = "MouseClickAction"
      THEN [a EXCEPT !.clicks = IF @ = 0 THEN 1 ELSE @,
                     !.button = IF @ = <<>> THEN S_left ELSE @]
      ELSE a

C23_WaitNonNegative ==
    Ran("LaunchProcessAction") => output.action.wait >= 0

\* ----------------------------------------------------------------- C27
\* C27: LaunchProcess.run with an empty command raises and does nothing else;
\* otherwise it calls Popen once, and when that raises the run raises
\* ActionError with no second attempt and no sleep; after a successful spawn
\* it calls sleep once with the wait when the wait is positive and not at all
\* otherwise, and returns.
C27_LaunchSpawnThenSleep ==
    Ran("LaunchProcessAction") =>
        LET a == output.action
            r == output.result
        IN /\ a.command = <<>> => (r.raised /\ r.exc = "ActionError" /\ r.events = <<>>)
           /\ (a.command # <<>> /\ input.env.spawn = "fails") =>
                 /\ r.raised /\ r.exc = "ActionError"
                 /\ r.events = <<SpawnEvent(a.command, FALSE)>>
           /\ (a.command # <<>> /\ input.env.spawn = "ok") =>
                 /\ ~r.raised
                 /\ r.events = IF a.wait > 0
                                 THEN <<SpawnEvent(a.command, TRUE), SleepEvent(a.wait, 1000)>>
                                 ELSE <<SpawnEvent(a.command, TRUE)>>

C27_Witness ==
    /\ Ran("LaunchProcessAction")
    /\ input.entry.wait = Str_(<<"1",".","5">>)
    /\ input.env.spawn = "ok"
    /\ output.action.command = <<"n">>
    /\ ~output.result.raised
    /\ output.result.events = <<SpawnEvent(<<"n">>, TRUE), SleepEvent(1500, 1000)>>

\* ------------------------------------------- _tokenize_keys as a machine
KeyChars == {"<", ">", " ", "a"}
KeySequences == SeqsUpTo(KeyChars, MaxKeys)
KeysInput(sequence) == [given |-> TRUE, sequence |-> sequence]

InitTokenize == InitWithInput({[actions |-> <<>>, repeat_count |-> NoRepeat,
                                repeat_until_stopped |-> FALSE]}, {},
                              {KeysInput(s) : s \in KeySequences})

\* one call of _tokenize_keys
Tokenize ==
    /\ input.given
    /\ ~output.done
    /\ output' = [done |-> TRUE, tokens |-> TokenizeKeys(input.sequence)]
    /\ UNCHANGED <<input, clickerVars, engineVars, callerVars, workerVars, histVars>>

NextTokenize == Tokenize

SpecTokenize == InitTokenize /\ [][NextTokenize]_vars

\* ----------------------------------------------------------------- C28
\* the bracketed stretches of the input: from a '<' to the next '>' with no
\* '<' in between
Brackets ==
    {p \in (1..Len(input.sequence)) \X (1..Len(input.sequence)) :
        /\ p[1] < p[2]
        /\ input.sequence[p[1]] = "<"
        /\ input.sequence[p[2]] = ">"
        /\ \A k \in (p[1] + 1)..(p[2] - 1) : input.sequence[k] \notin {"<", ">"}}
InBracket(k) == \E p \in Brackets : p[1] <= k /\ k <= p[2]
Kept(k) == input.sequence[k] # " " \/ InBracket(k)
\* the input without the spaces outside bracketed stretches
RECURSIVE KeptFrom(_)
KeptFrom(k) ==
    IF k > Len(input.sequence) THEN <<>>
    ELSE (IF Kept(k) THEN <<input.sequence[k]>> ELSE <<>>) \o KeptFrom(k + 1)
\* how many characters up to position k are kept
KeptUpTo(k) == Cardinality({j \in 1..k : Kept(j)})

RECURSIVE Concat(_)
Concat(tokens) == IF tokens = <<>> THEN <<>> ELSE Head(tokens) \o Concat(Tail(tokens))
\* where token k begins in the concatenation
TokenStart(k) == Len(Concat(SubSeq(output.tokens, 1, k - 1))) + 1
BracketTokens ==
    {k \in 1..Len(output.tokens) :
        \E p \in Brackets : /\ TokenStart(k) = KeptUpTo(p[1])
                            /\ Len(output.tokens[k]) = p[2] - p[1] + 1}

\* C28: the tokens, joined in order, are the input without the spaces that
\* stand outside bracketed stretches; every bracketed stretch is one token,
\* unchanged; every other token has no space in it; no token is empty.
C28_TokenizeKeys ==
    output.done =>
        /\ Concat(output.tokens) = KeptFrom(1)
        /\ \A k \in 1..Len(output.tokens) : output.tokens[k] # <<>>
        /\ \A p \in Brackets :
              \E k \in 1..Len(output.tokens) :
                 /\ TokenStart(k) = KeptUpTo(p[1])
                 /\ output.tokens[k] = SubSeq(input.sequence, p[1], p[2])
        /\ \A k \in (1..Len(output.tokens)) \ BracketTokens :
              \A j \in 1..Len(output.tokens[k]) : output.tokens[k][j] # " "

C28_Witness ==
    /\ output.done
    /\ input.sequence = <<"a", " ", "<", " ", ">">>
    /\ output.tokens = << <<"a">>, <<"<", " ", ">">> >>

\* ----------------------------------------------------------------- C24
\* C24: a worker about to begin a pass (no action of the pass looked at yet)
\* that finds the cancel flag set ends the run with (false, "Aborted"),
\* whatever the length of the action list.
C24_CancelCheckedBeforePass ==
    [][\A w \in Workers :
          (wpc[w] = "check" /\ idx[w] = 1 /\ stop /\ wpc'[w] # "check")
              => pending'[w] = Aborted]_vars

\* ----------------------------------------------------------------- C25
\* the action runs a worker has begun so far
BegunBy(w) == Cardinality({k \in 1..Len(trace[w]) : trace[w][k][1] = "begin"})
\* the worker emits a line to the on_log callback in this step
EmitsLog(w) ==
    /\ Len(trace'[w]) = Len(trace[w]) + 1
    /\ trace'[w][Len(trace'[w])][1] = "log"

\* C25: with an on_log callback, the step between the cancel check for action
\* i and the start of i.run emits exactly one line, made of i counted from 1,
\* the number of actions and the kind of action i; a line is emitted at no
\* other step, and every emitted line is directly followed by the run of its
\* action.
C25_ProgressLine ==
    /\ [][\A w \in Workers :
            /\ (wpc'[w] = "log" /\ wpc[w] # "log") => (wpc[w] = "check" /\ ~stop)
            /\ (wpc'[w] = "call" /\ wpc[w] # "call") => wpc[w] = "log"
            /\ (wpc[w] = "log" /\ wpc'[w] # "log" /\ onLog) =>
                  trace'[w] = Append(trace[w],
                                     <<"log", BegunBy(w) + 1, Len(script.actions),
                                       script.actions[BegunBy(w) + 1]>>)
            /\ EmitsLog(w) => wpc[w] = "log"]_vars
    /\ [](\A w \in Workers : \A k \in 1..Len(trace[w]) :
            trace[w][k][1] = "log" =>
                IF k = Len(trace[w]) THEN wpc[w] = "call"
                ELSE trace[w][k + 1] = <<"begin", trace[w][k][2]>>)

C25_Witness ==
    \E w \in Workers :
        /\ Len(script.actions) = 2
        /\ Len(trace[w]) >= 6
        /\ trace[w][1] = <<"log", 1, 2, script.actions[1]>>
        /\ trace[w][2] = <<"begin", 1>>
        /\ trace[w][4] = <<"log", 2, 2, script.actions[2]>>
        /\ trace[w][5] = <<"begin", 2>>

\* ----------------------------------------------------------------- C26
\* C26: with an on_log callback, the step in which the worker finds the cancel
\* flag set at an action boundary emits a line to on_log, before on_done gets
\* (false, "Aborted").
C26_CancellationLogged ==
    [][\A w \in Workers :
          (wpc[w] = "check" /\ wpc'[w] = "finish" /\ pending'[w] = Aborted /\ onLog)
              => EmitsLog(w)]_vars

\* ----------------------------------------------------------------- C29
\* what the run did apart from lines given to the logger
Effects == SelectSeq(output.result.events, LAMBDA e : e.tag # "log")
KeysSent == [k \in 1..Len(EventsOf("key")) |-> EventsOf("key")[k].button]
\* the run is served by pywinauto's send_keys
ViaPywinauto == input.env.win /\ input.env.pywinauto = "ok"
\* the keys a list of tokens stands for
RECURSIVE KeysFor(_)
KeysFor(tokens) ==
    IF tokens = <<>> THEN <<>>
    ELSE (IF TokenMap(Head(tokens)) # None
            THEN <<TokenMap(Head(tokens))>>
            ELSE [k \in 1..Len(Head(tokens)) |-> <<Head(tokens)[k]>>])
           \o KeysFor(Tail(tokens))

C30_TypeTextPaced ==
    Ran("TypeTextAction") =>
        LET text == output.action.text
            n == Len(text)
        IN /\ text = <<>> => output.result = Returns(<<>>)
           /\ (text # <<>> /\ ~ViaPywinauto /\ input.env.keyboard = "ok") =>
                 /\ ~output.result.raised
                 /\ Len(Effects) = 2 * n + 1
                 /\ \A k \in 1..n :
                       /\ Effects[2 * k - 1].tag = "key"
                       /\ Effects[2 * k - 1].button = <<text[k]>>
                       /\ Effects[2 * k] = SleepEvent(10, 1000)
                 /\ Effects[2 * n + 1] = SleepEvent(100, 1000)
                 /\ Len(EventsOf("sleep")) = n + 1

C30_Witness ==
    /\ Ran("TypeTextAction")
    /\ ~ViaPywinauto
    /\ input.env.keyboard = "ok"
    /\ output.action.text = <<"a", " ", "a">>
    /\ Len(EventsOf("key")) = 3
    /\ Len(EventsOf("sleep")) = 4

\* ----------------------------------------------------------------- C31
\* the coordinates, when both are given, convert to integers
Convertible == BothGiven(output.action) =>
                  (PyInt(output.action.x).ok /\ PyInt(output.action.y).ok)
\* the presses (1 for a scroll) the action asks a backend for
Asked == IF output.action.kind = "MouseClickAction" THEN ClickCount(output.action) ELSE 1
\* a backend that is there and does not raise during the calls asked of it
CanServe(how, after) ==
    /\ how \in {"ok", "late"}
    /\ how = "late" => after >= Asked
    /\ Convertible
PointerAction == Ran("MouseClickAction") \/ Ran("ScrollAction")

\* C31: MouseClick.run and Scroll.run raise exactly when neither the pynput
\* nor the pyautogui backend gets through its calls, and then with
\* ActionError; when pynput is missing or raises and pyautogui gets through,
\* the run returns and the last calls are pyautogui's.
C31_RaisesOnlyWithoutBackend ==
    PointerAction =>
        LET p == CanServe(input.env.primary, input.env.primaryAfter)
            f == CanServe(input.env.fallback, input.env.fallbackAfter)
        IN /\ output.result.raised <=> (~p /\ ~f)
           /\ output.result.raised => output.result.exc = "ActionError"
           /\ (~p /\ f) =>
                 /\ Effects # <<>>
                 /\ Effects[Len(Effects)].backend = "pyautogui"

C31_Witness ==
    /\ Ran("ScrollAction")
    /\ input.env.primary = "early"
    /\ input.env.fallback = "ok"
    /\ ~output.result.raised
    /\ output.action.amount = 0 - 3
    /\ EventsOf("scroll") = <<ScrollEvent("pyautogui", TRUE, 0 - 3, 0)>>

\* ----------------------------------------------------------------- C32
\* C32: a MouseClick run that returns has pressed the button max(1, clicks)
\* times in all, the presses of pynput and of pyautogui counted together.
C32_ExactPressesAcrossBackends ==
    (Ran("MouseClickAction") /\ ~output.result.raised) =>
        Len(EventsOf("press")) =
            (IF output.action.clicks > 1 THEN output.action.clicks ELSE 1)

\* ----------------------------------------------------------------- C33
\* C33: the flag that cancel() set while a worker was alive is not cleared
\* as long as that worker is alive.
C33_FlagStaysSet ==
    [][(stop /\ ~stop') => cancelled = {}]_vars

\* ----------------------------------------------------------------- C34
\* the runs of worker w that ended by returning, and those begun
EndedBy(w) == {trace[w][k][2] : k \in {j \in 1..Len(trace[w]) : trace[w][j][1] = "end"}}
BegunSet(w) == {trace[w][k][2] : k \in {j \in 1..Len(trace[w]) : trace[w][j][1] = "begin"}}
FinishedWith(w, outcome) ==
    \E k \in 1..Len(trace[w]) :
        trace[w][k][1] = "done" /\ trace[w][k][2] = Outcome(outcome)

\* C34: _finish gets (true, "Completed") only when every action of the script
\* has run and returned and none raised, and (false, "Aborted") only when
\* some action was not started; so once the last action has been started the
\* outcome is not "Aborted".
C34_OutcomeMatchesRuns ==
    \A w \in Workers :
        /\ FinishedWith(w, Completed) =>
              /\ EndedBy(w) = 1..Len(script.actions)
              /\ \A k \in 1..Len(trace[w]) : trace[w][k][1] # "raise"
        /\ FinishedWith(w, Aborted) => BegunSet(w) # 1..Len(script.actions)
        /\ (Len(script.actions) > 0 /\ Len(script.actions) \in BegunSet(w)) =>
              pending[w] # Aborted

C34_Witness ==
    \E w \in Workers :
        /\ Len(script.actions) = 2
        /\ stop
        /\ sinceStop[w].begun = 0
        /\ sinceStop[w].ended = 1
        /\ FinishedWith(w, Completed)

\* ----------------------------------------------------------------- C35
\* C35: with a finite action list, no repeat_until_stopped, and action runs
\* that end, a started worker leads to a state where it has called _finish
\* (and with it the on_done callback, when one is registered), its thread
\* has ended and is_running() is false; cancel() may or may not be called.
C35_WorkerTerminates ==
    \A w \in Workers :
        Alive(w) ~> /\ wpc[w] = "dead"
                    /\ ~IsRunning
                    /\ DoneEvents(w) # <<>>
                    /\ onDone => Invocations(w) # <<>>

C35_Witness ==
    \E w \in Workers :
        /\ wpc[w] = "dead"
        /\ ~IsRunning
        /\ onDone
        /\ Invocations(w) # <<>>
        /\ everCancel
        /\ Count(w, "begin") > 0

\* ----------------------------------------------------------------- C36
\* C36: while a worker is inside the on_done callback, is_running() is true
\* and no start() call gets past the test of line 29.
C36_AliveDuringOnDone ==
    /\ [](\A w \in Workers : wpc[w] = "in_done" => IsRunning)
    /\ [][\A c \in Callers :
            (cpc[c] = "idle" /\ cpc'[c] = "start_clear")
                => \A w \in Workers : wpc[w] # "in_done"]_vars

\* ----------------------------------------------------------------- C37
\* C37: a start() that finds no live worker is never a no-op, and the worker
\* it starts begins at the first action with the cancel flag cleared and
\* nothing done yet, whatever the earlier runs and cancel() calls were; a
\* cancel() that finds no live worker returns without a join and without any
\* callback.
C37_RestartIsFresh ==
    /\ [][(noopStart' /\ ~noopStart) => IsRunning]_vars
    /\ [][\A w \in Workers :
            (wpc[w] = "created" /\ wpc'[w] # "created") =>
                /\ wpc'[w] = "check"
                /\ idx'[w] = 1
                /\ ~stop'
                /\ trace'[w] = <<>>]_vars
    /\ [][\A c \in Callers :
            (cpc[c] = "cancel_check" /\ ~IsRunning /\ cpc'[c] # "cancel_check") =>
                (cpc'[c] = "idle" /\ trace' = trace)]_vars

C37_Witness ==
    /\ wpc[1] = "forgotten"
    /\ wpc[2] = "dead"
    /\ everCancel
    /\ onDone
    /\ Invocations(2) = <<DoneWith(Completed)>>
    /\ Count(2, "begin") = NumActions
    /\ NumActions > 0

\* ------------------------------------------------ AutoClickerEngine
\* (clicker_engine.py; the configuration is models.ClickConfiguration)
MaxTotal == 2
MaxPositions == 2
\* the clicks one worker makes in the model: enough for every click limit
MaxClicked == MaxTotal + 1

\* ClickConfiguration after __post_init__ (models.py 73-81): total_clicks >= 0,
\* and at least one position in static mode; the positions are numbered from 0
ClickConfiguration(total_clicks, positions, click_mode) ==
    [given |-> TRUE, total_clicks |-> total_clicks, positions |-> positions,
     click_mode |-> click_mode]
ClickConfigurations ==
    {ClickConfiguration(n, p, "STATIC_SEQUENCE") : n \in 0..MaxTotal, p \in 1..MaxPositions}
      \cup {ClickConfiguration(n, 0, "FOLLOW_CURSOR") : n \in 0..MaxTotal}

\* a configuration that always has a click limit
IsInfiniteModeNever == FALSE

\* models.py 92-94: return self.total_clicks == 0
IsInfiniteMode == input.total_clicks = 0

ClickerOther == <<script, thread, stop, onLog, onDone, callerVars, workerVars,
                  histVars, input, output>>

ClickAlive(w) == cwpc[w] \notin {"unborn", "dead"}

\* ---- start() (51-70)
\* line 58: if self._state == ClickerState.RUNNING
KStartCheck ==
    /\ kpc = "idle"
    /\ kpc' = IF state = "RUNNING" THEN "start_refused" ELSE "start_clear"
    /\ UNCHANGED <<ClickerOther, state, worker_thread, stop_flag, clicks_executed,
                   cwpc, position_index, loaded, clicked, stopCalled, clickRaised>>

\* lines 59-60: self._notify_status("Already running"); return False
KStartRefused ==
    /\ kpc = "start_refused"
    /\ kpc' = "idle"
    /\ UNCHANGED <<ClickerOther, state, worker_thread, stop_flag, clicks_executed,
                   cwpc, position_index, loaded, clicked, stopCalled, clickRaised>>

\* line 62: self._stop_flag.clear()
KStartClear ==
    /\ kpc = "start_clear"
    /\ stop_flag' = FALSE
    /\ kpc' = "start_reset"
    /\ UNCHANGED <<ClickerOther, state, worker_thread, clicks_executed,
                   cwpc, position_index, loaded, clicked, stopCalled, clickRaised>>

\* line 63: self._clicks_executed = 0
KStartReset ==
    /\ kpc = "start_reset"
    /\ clicks_executed' = 0
    /\ kpc' = "start_state"
    /\ UNCHANGED <<ClickerOther, state, worker_thread, stop_flag,
                   cwpc, position_index, loaded, clicked, stopCalled, clickRaised>>

\* line 64: self._state = ClickerState.RUNNING
KStartState ==
    /\ kpc = "start_state"
    /\ state' = "RUNNING"
    /\ kpc' = "start_thread"
    /\ UNCHANGED <<ClickerOther, worker_thread, stop_flag, clicks_executed,
                   cwpc, position_index, loaded, clicked, stopCalled, clickRaised>>

\* lines 66-70: the thread is created and started; it enters _click_worker
\* and, by lines 109-114 and 125-126, its loop with current_position_index 0
\* (the model holds MaxWorkers threads; a caller that needs one more waits)
KStartThread ==
    /\ kpc = "start_thread"
    /\ \E w \in Workers :
         /\ cwpc[w] = "unborn"
         /\ \A v \in Workers : cwpc[v] = "unborn" => w <= v
         /\ worker_thread' = w
         /\ cwpc' = [cwpc EXCEPT ![w] = "test_flag"]
         /\ position_index' = [position_index EXCEPT ![w] = 0]
    /\ kpc' = "idle"
    /\ UNCHANGED <<ClickerOther, state, stop_flag, clicks_executed,
                   loaded, clicked, stopCalled, clickRaised>>

\* ---- stop() (72-87)
\* lines 78-79: if self._state != ClickerState.RUNNING: return
KStopCheck ==
    /\ kpc = "idle"
    /\ kpc' = IF state # "RUNNING" THEN "stop_return" ELSE "stop_set"
    /\ UNCHANGED <<ClickerOther, state, worker_thread, stop_flag, clicks_executed,
                   cwpc, position_index, loaded, clicked, stopCalled, clickRaised>>

\* line 81: self._stop_flag.set()
KStopSet ==
    /\ kpc = "stop_set"
    /\ stop_flag' = TRUE
    /\ stopCalled' = TRUE
    /\ kpc' = "stop_state"
    /\ UNCHANGED <<ClickerOther, state, worker_thread, clicks_executed,
                   cwpc, position_index, loaded, clicked, clickRaised>>

\* line 82: self._state = ClickerState.STOPPED
KStopState ==
    /\ kpc = "stop_state"
    /\ state' = "STOPPED"
    /\ kpc' = "stop_join"
    /\ UNCHANGED <<ClickerOther, worker_thread, stop_flag, clicks_executed,
                   cwpc, position_index, loaded, clicked, stopCalled, clickRaised>>

\* line 84: if self._worker_thread and self._worker_thread.is_alive()
KStopJoin ==
    /\ kpc = "stop_join"
    /\ kpc' = IF worker_thread # NoThread /\ ClickAlive(worker_thread)
                THEN "stop_wait" ELSE "stop_return"
    /\ UNCHANGED <<ClickerOther, state, worker_thread, stop_flag, clicks_executed,
                   cwpc, position_index, loaded, clicked, stopCalled, clickRaised>>

\* line 85: join(timeout=2.0) returns when the thread has ended, or when two
\* seconds have passed, which happens while the thread is inside a call that
\* takes time: time.sleep(delay), or a pyautogui call
BoundedJoinReturns(w) == ~ClickAlive(w) \/ cwpc[w] \in {"sleep", "click"}

\* line 85 returns / lines 79, 87: stop() returns
KStopReturn ==
    /\ \/ kpc = "stop_return"
       \/ kpc = "stop_wait" /\ BoundedJoinReturns(worker_thread)
    /\ kpc' = "idle"
    /\ UNCHANGED <<ClickerOther, state, worker_thread, stop_flag, clicks_executed,
                   cwpc, position_index, loaded, clicked, stopCalled, clickRaised>>

\* ---- _click_worker (101-121) and its two loops (123-157)
\* lines 128, 146: while not self._stop_flag.is_set()
ClickTestFlag(w) ==
    /\ cwpc[w] = "test_flag"
    /\ cwpc' = [cwpc EXCEPT ![w] = IF stop_flag THEN "finish" ELSE "test_limit"]
    /\ UNCHANGED <<ClickerOther, state, worker_thread, stop_flag, clicks_executed, kpc,
                   position_index, loaded, clicked, stopCalled, clickRaised>>

\* lines 129-131, 147-149
ClickTestLimit(w) ==
    /\ cwpc[w] = "test_limit"
    /\ cwpc' = [cwpc EXCEPT ![w] =
                  IF ~IsInfiniteMode /\ clicks_executed >= input.total_clicks
                    THEN "finish" ELSE "click"]
    /\ UNCHANGED <<ClickerOther, state, worker_thread, stop_flag, clicks_executed, kpc,
                   position_index, loaded, clicked, stopCalled, clickRaised>>

\* line 133: self._config.click_positions[current_position_index]; the
\* follow-cursor loop passes position=None, written -1 (line 151)
Position(i) == IF input.click_mode = "FOLLOW_CURSOR" THEN 0 - 1 ELSE i

\* lines 134, 151: self._perform_click(position), which returns or raises
\* (a worker that has clicked MaxClicked times is not scheduled again)
ClickPerform(w) ==
    /\ cwpc[w] = "click"
    /\ Len(clicked[w]) < MaxClicked
    /\ \E raises \in BOOLEAN :
         IF raises
           THEN /\ cwpc' = [cwpc EXCEPT ![w] = "except"]
                /\ clickRaised' = TRUE
                /\ UNCHANGED clicked
           ELSE /\ cwpc' = [cwpc EXCEPT ![w] = "load"]
                /\ clicked' = [clicked EXCEPT ![w] = Append(@, Position(position_index[w]))]
                /\ UNCHANGED clickRaised
    /\ UNCHANGED <<ClickerOther, state, worker_thread, stop_flag, clicks_executed, kpc,
                   position_index, loaded, stopCalled>>

\* lines 136, 152, first half: `self._clicks_executed += 1` reads the count
ClickLoad(w) ==
    /\ cwpc[w] = "load"
    /\ loaded' = [loaded EXCEPT ![w] = clicks_executed]
    /\ cwpc' = [cwpc EXCEPT ![w] = "store"]
    /\ UNCHANGED <<ClickerOther, state, worker_thread, stop_flag, clicks_executed, kpc,
                   position_index, clicked, stopCalled, clickRaised>>

\* lines 136-137, 152: the count read, plus one, is stored;
\* current_position_index = (current_position_index + 1) % position_count
ClickStore(w) ==
    /\ cwpc[w] = "store"
    /\ clicks_executed' = loaded[w] + 1
    /\ loaded' = [loaded EXCEPT ![w] = 0]
    /\ position_index' =
          IF input.click_mode = "FOLLOW_CURSOR" THEN position_index
          ELSE [position_index EXCEPT ![w] = (@ + 1) % input.positions]
    /\ cwpc' = [cwpc EXCEPT ![w] = "sleep"]
    /\ UNCHANGED <<ClickerOther, state, worker_thread, stop_flag, kpc,
                   clicked, stopCalled, clickRaised>>

\* lines 142, 157: time.sleep(delay) returns
ClickSleep(w) ==
    /\ cwpc[w] = "sleep"
    /\ cwpc' = [cwpc EXCEPT ![w] = "test_flag"]
    /\ UNCHANGED <<ClickerOther, state, worker_thread, stop_flag, clicks_executed, kpc,
                   position_index, loaded, clicked, stopCalled, clickRaised>>

\* lines 116-117 (the loop has ended) and 119-121 (an exception): the state
\* is set and the thread ends
ClickFinish(w) ==
    /\ cwpc[w] \in {"finish", "except"}
    /\ state' = IF cwpc[w] = "finish" THEN "STOPPED" ELSE "ERROR"
    /\ cwpc' = [cwpc EXCEPT ![w] = "dead"]
    /\ UNCHANGED <<ClickerOther, worker_thread, stop_flag, clicks_executed, kpc,
                   position_index, loaded, clicked, stopCalled, clickRaised>>

InitClicker ==
    InitWithInput({[actions |-> <<>>, repeat_count |-> NoRepeat,
                    repeat_until_stopped |-> FALSE]}, {}, ClickConfigurations)

NextClicker ==
    \/ KStartCheck
    \/ KStartRefused
    \/ KStartClear
    \/ KStartReset
    \/ KStartState
    \/ KStartThread
    \/ KStopCheck
    \/ KStopSet
    \/ KStopState
    \/ KStopJoin
    \/ KStopReturn
    \/ \E w \in Workers :
         \/ ClickTestFlag(w)
         \/ ClickTestLimit(w)
         \/ ClickPerform(w)
         \/ ClickLoad(w)
         \/ ClickStore(w)
         \/ ClickSleep(w)
         \/ ClickFinish(w)

SpecClicker == InitClicker /\ [][NextClicker]_vars

\* the engine when stop() is never called
NextClickerRun ==
    \/ KStartCheck
    \/ KStartRefused
    \/ KStartClear
    \/ KStartReset
    \/ KStartState
    \/ KStartThread
    \/ \E w \in Workers :
         \/ ClickTestFlag(w)
         \/ ClickTestLimit(w)
         \/ ClickPerform(w)
         \/ ClickLoad(w)
         \/ ClickStore(w)
         \/ ClickSleep(w)
         \/ ClickFinish(w)

SpecClickerRun == InitClicker /\ [][NextClickerRun]_vars

\* ----------------------------------------------------------------- C38
\* C38: at no time are two click workers both past the tests of their loop
\* and about to click.
C38_OneClickWorker ==
    Cardinality({w \in Workers : cwpc[w] = "click"}) <= 1

\* ----------------------------------------------------------------- C39
\* static-sequence mode, stop() never called, no click raised
Undisturbed == input.click_mode = "STATIC_SEQUENCE" /\ ~stopCalled /\ ~clickRaised
\* the first n places of the round through the positions
Round(n) == [k \in 1..n |-> (k - 1) % input.positions]

\* C39: in static-sequence mode with total_clicks = N > 0, while stop() is
\* not called and no click raises, a worker's clicks are the first places of
\* the round through click_positions, at most N of them; it leaves its loop
\* only after exactly N clicks, with the count at N, and sets the state to
\* STOPPED; with total_clicks = 0 no worker leaves its loop.
C39_StaticSequence ==
    /\ [](Undisturbed =>
            \A w \in Workers :
               /\ Len(clicked[w]) <= MaxClicked
               /\ clicked[w] = Round(Len(clicked[w]))
               /\ input.total_clicks > 0 =>
                     /\ Len(clicked[w]) <= input.total_clicks
                     /\ cwpc[w] \in {"finish", "dead"} =>
                           clicked[w] = Round(input.total_clicks)
                     /\ (cwpc[w] = "dead" /\ worker_thread = w /\ kpc = "idle") =>
                           (state = "STOPPED" /\ clicks_executed = input.total_clicks)
               /\ input.total_clicks = 0 => cwpc[w] \notin {"finish", "except", "dead"})
    /\ [][\A w \in Workers :
            (Undisturbed /\ cwpc[w] = "finish" /\ cwpc'[w] = "dead") =>
                (state' = "STOPPED" /\ clicks_executed' = input.total_clicks)]_vars

C39_Witness ==
    /\ Undisturbed
    /\ input.total_clicks = 2
    /\ input.positions = 2
    /\ cwpc[1] = "dead"
    /\ clicked[1] = <<0, 1>>
    /\ state = "STOPPED"
    /\ clicks_executed = 2

====
